---- MODULE Spec2Model ----
(***************************************************************************)
(* Model of the Dilon Claude Tools MCP server: the request dispatcher of   *)
(* server.js, the three tool handlers (dilon_compile_doc, dilon_plantuml, *)
(* dilon_generate_stub), the process runner and path resolver of utils.js *)
(* and the configuration provider of config.js.                            *)
(*                                                                         *)
(* A JavaScript string is a sequence of atoms: the separator "/", the dot  *)
(* ".", and chunks of other characters ("a", "MD", "plantuml").  The path  *)
(* functions are those of Node's posix path module.                        *)
(***************************************************************************)
EXTENDS Integers, Sequences, FiniteSets, TLC

\* Number of tool-call requests the transport delivers in one run.
MaxRequests == 2

------------------------------------------------------------------------------
(* JavaScript values *)

\* the value of an absent property
Undefined == <<"undefined">>
\* a truthy value that is not a string (a number, an object)
NotAString == <<"number">>
\* the empty string
Empty == <<>>
Null == <<"null">>

IsString(v) == v \notin {Undefined, NotAString, Null}
Truthy(v) == v \notin {Undefined, Empty, Null}
\* v || d
OrDefault(v, d) == IF Truthy(v) THEN v ELSE d

SetMax(S) == CHOOSE x \in S : \A y \in S : y <= x
SetMin(S) == CHOOSE x \in S : \A y \in S : x <= y

UpperChunks == <<"MD", "PUML", "TXT", "SVG", "PNG", "A", "D">>
LowerChunks == <<"md", "puml", "txt", "svg", "png", "a", "d">>
LowerAtom(c) ==
  IF \E i \in 1..Len(UpperChunks) : UpperChunks[i] = c
  THEN LowerChunks[CHOOSE i \in 1..Len(UpperChunks) : UpperChunks[i] = c]
  ELSE c
UpperAtom(c) ==
  IF \E i \in 1..Len(LowerChunks) : LowerChunks[i] = c
  THEN UpperChunks[CHOOSE i \in 1..Len(LowerChunks) : LowerChunks[i] = c]
  ELSE c
\* String.prototype.toLowerCase / toUpperCase
toLowerCase(s) == [i \in 1..Len(s) |-> LowerAtom(s[i])]
toUpperCase(s) == [i \in 1..Len(s) |-> UpperAtom(s[i])]

\* String.prototype.includes for a phrase of consecutive atoms
includes(s, phrase) ==
  \E i \in 1..(Len(s) - Len(phrase) + 1) : SubSeq(s, i, i + Len(phrase) - 1) = phrase

------------------------------------------------------------------------------
(* Faulty variants of single checks of the program.  Each property below   *)
(* is violated when the check it rests on is replaced by its variant.      *)

\* the input file is taken to be there
CompileInputAlwaysThere(f, inputPath) == FALSE
\* the output file is taken to be there whatever the compiler wrote
CompileOutputAssumed(f, outputPath) == FALSE
\* the output file is taken to be there whatever the renderer wrote
RenderOutputAssumed(f, outputPath) == FALSE
\* every extension is accepted
AnyExtensionAccepted(inputPath) == FALSE
\* the existing stub is overwritten
StubOverwrites(f, outputPath) == FALSE
\* only the files of the installation count as existing, not the ones
\* written since the server started
StubSeesOnlyOlderFiles(f, outputPath) ==
  outputPath \in DOMAIN f /\ f[outputPath].by = 0
\* the default branch throws instead of returning
UnknownToolThrows(name) == [kind |-> "throw", message |-> <<"Unknown tool:", " ", name>>]
\* the dispatcher drops the handler's result
DispatchDropsResult(name, step) == [kind |-> "return", envelope |-> [content |-> <<>>]]
\* the error envelope lacks its flag
ErrorWithoutFlag(message, details) ==
  [content |-> <<[type |-> "text", text |-> message]>>]
\* the fallback is never tried
NeverFallback(result) == FALSE
\* startup goes on to serve whatever the validation found
ServesUnvalidated(lc, validation) ==
  [state    |-> "serving",
   exitCode |-> 0,
   config   |-> lc.config,
   diag     |-> [warned |-> lc.warned, read |-> lc.read, missing |-> <<>>,
                 errors |-> validation.errors, warnings |-> validation.warnings]]
\* the aliased command is run again whenever it has ended
AliasRetried(locals, result, f) ==
  [kind |-> "await", phase |-> "alias", command |-> <<"plantuml">>, locals |-> locals]
\* the output file is taken to be missing whatever is on disk
OutputNeverThere(f, outputPath) == TRUE
\* a failure is reported without its description
FailureWithoutMessage(command, outcome) ==
  [success |-> outcome.exit = "zero", stdout |-> <<>>, stderr |-> <<>>,
   error |-> <<"null">>]
\* the bundled example is used whatever the user configuration holds
AlwaysTheExample(files) ==
  IF files.example.kind = "json"
  THEN [threw |-> FALSE, warned |-> TRUE, read |-> "example", missing |-> <<>>,
        config |-> files.example.value]
  ELSE [threw |-> TRUE, warned |-> TRUE, read |-> "none", missing |-> <<>>,
        message |-> <<"Neither config found">>]
\* whatever is missing makes the installation invalid
ValidationAlwaysFails(f, config, compilerPaths, docPaths) ==
  [valid |-> FALSE, errors |-> <<"not found">>, warnings |-> <<>>]
\* a failed java -jar run is taken for a success
JavaFailureIgnored(locals, result, javaResult, f) ==
  [kind |-> "return",
   envelope |-> [content |-> <<[type |-> "text",
                                text |-> <<"Diagram generated successfully!">>]>>]]
\* the renderer is spawned without a look for the jar
JarUnchecked(f, inputPath, outputPath, outputFormat, plantUmlJar) ==
  [kind |-> "await", phase |-> "alias",
   command |-> <<"plantuml", " ", "-t">> \o outputFormat \o <<" ", "\"">> \o inputPath
                 \o <<"\"">>,
   locals |-> [inputPath |-> inputPath, outputPath |-> outputPath,
               outputFormat |-> outputFormat, formatFlag |-> <<"-t">> \o outputFormat,
               plantUmlJar |-> plantUmlJar]]
\* the signature template is passed on without a look at the disk
SignatureUnchecked(args, f, compilerPaths, sigTemplatePath) ==
  [exit |-> "none", extra |-> <<sigTemplatePath, sigTemplatePath>>]
\* the stub is written without the text of the template
TemplateTextDropped(templateContent, r) == <<>>
\* the path is appended to the base as it is, nothing is normalized
ResolveJoinsOnly(filePath, basePath) ==
  IF Len(filePath) > 0 /\ filePath[1] = "/" THEN filePath
  ELSE basePath \o <<"/">> \o filePath
\* a lone content template is passed without the default signature template
ContentWithoutSignature(f, first, contentTemplatePath) ==
  [exit |-> "none", extra |-> <<contentTemplatePath>>]
\* the defaults are the values the template carries
StubKeepsTemplateValues(args) ==
  [title                |-> <<"Document Title">>,
   author               |-> <<"Author Name">>,
   department           |-> <<"Engineering">>,
   doc_number           |-> <<"DD_XXX_XXXXX">>,
   current_revision     |-> <<"1.0">>,
   regulatory_rep       |-> <<"Shannon Smith">>,
   quality_rep          |-> <<"Kevin Johnson">>,
   department_head      |-> <<"Josh Williams">>,
   revision_number      |-> <<"1.0">>,
   revision_description |-> <<"Initial release">>,
   eco_number           |-> <<"ECO-TBD">>,
   eco_date             |-> <<"YYYY-MM-DD">>]

------------------------------------------------------------------------------
(* Node's path module (posix) *)

Sep == "/"
Dot == "."
\* process.cwd()
cwd == <<Sep, "w">>

isAbsolute(p) == Len(p) > 0 /\ p[1] = Sep

MaxOrZero(I) == IF I = {} THEN 0 ELSE SetMax(I)
LastIndexOf(s, c) == MaxOrZero({i \in 1..Len(s) : s[i] = c})

\* the segments of p between separators; i is the first separator, or 0
RECURSIVE SplitPath(_)
SplitAt(p, i) ==
  IF i = 0 THEN <<p>>
  ELSE <<SubSeq(p, 1, i - 1)>> \o SplitPath(SubSeq(p, i + 1, Len(p)))
SplitPath(p) ==
  SplitAt(p, IF \E i \in 1..Len(p) : p[i] = Sep
             THEN SetMin({i \in 1..Len(p) : p[i] = Sep}) ELSE 0)

\* normalizeString: drops empty and "." segments, resolves ".."
RECURSIVE NormalizeSegs(_, _, _)
NormalizeSegs(segs, acc, allowAboveRoot) ==
  IF segs = <<>> THEN acc
  ELSE NormalizeSegs(Tail(segs),
         IF Head(segs) = <<>> \/ Head(segs) = <<Dot>> THEN acc
         ELSE IF Head(segs) = <<Dot, Dot>>
         THEN IF acc # <<>> /\ acc[Len(acc)] # <<Dot, Dot>>
              THEN SubSeq(acc, 1, Len(acc) - 1)
              ELSE IF allowAboveRoot THEN Append(acc, Head(segs)) ELSE acc
         ELSE Append(acc, Head(segs)),
         allowAboveRoot)

RECURSIVE JoinSegs(_)
JoinSegs(segs) ==
  IF segs = <<>> THEN <<>>
  ELSE IF Len(segs) = 1 THEN Head(segs)
  ELSE Head(segs) \o <<Sep>> \o JoinSegs(Tail(segs))

\* path.resolve(...paths): right to left until an absolute path, else the cwd
RECURSIVE ResolveRaw(_)
ResolveRaw(paths) ==
  IF paths = <<>> THEN cwd
  ELSE IF isAbsolute(paths[Len(paths)]) THEN paths[Len(paths)]
  ELSE ResolveRaw(SubSeq(paths, 1, Len(paths) - 1))
         \o (IF paths[Len(paths)] = <<>> THEN <<>> ELSE <<Sep>> \o paths[Len(paths)])

pathResolve(paths) ==
  <<Sep>> \o JoinSegs(NormalizeSegs(SplitPath(ResolveRaw(paths)), <<>>, FALSE))

\* path.normalize(joined), body being its normalized segments joined
NormalizeResult(joined, body) ==
  IF isAbsolute(joined)
  THEN <<Sep>> \o body
         \o (IF joined[Len(joined)] = Sep /\ body # <<>> THEN <<Sep>> ELSE <<>>)
  ELSE IF body = <<>> THEN <<Dot>>
  ELSE body \o (IF joined[Len(joined)] = Sep THEN <<Sep>> ELSE <<>>)
pathNormalize(joined) ==
  IF joined = <<>> THEN <<Dot>>
  ELSE NormalizeResult(joined,
         JoinSegs(NormalizeSegs(SplitPath(joined), <<>>, ~isAbsolute(joined))))
\* path.join(a, b): concatenation of the non-empty parts, normalized
pathJoin(a, b) ==
  pathNormalize(IF a = <<>> THEN b ELSE IF b = <<>> THEN a ELSE a \o <<Sep>> \o b)

\* path.parse(p) for a path without trailing separators
\* i: the last separator of p; d: the last dot of base; an extension needs
\* a dot that is not the first character, in a base other than ".."
ParseBase(dir, base, d, noExt) ==
  [dir  |-> dir,
   base |-> base,
   name |-> IF noExt THEN base ELSE SubSeq(base, 1, d - 1),
   ext  |-> IF noExt THEN <<>> ELSE SubSeq(base, d, Len(base))]
ParseDot(dir, base, d) == ParseBase(dir, base, d, d = 0 \/ d = 1 \/ base = <<Dot, Dot>>)
ParseAt(p, i) ==
  ParseDot(IF i = 0 THEN <<>> ELSE IF i = 1 THEN <<Sep>> ELSE SubSeq(p, 1, i - 1),
           SubSeq(p, i + 1, Len(p)),
           LastIndexOf(SubSeq(p, i + 1, Len(p)), Dot))
parse(p) == ParseAt(p, LastIndexOf(p, Sep))

\* path.format({dir, name, ext}): no root and no base are given
format(dir, name, ext) ==
  IF dir = <<>> THEN name \o ext ELSE dir \o <<Sep>> \o name \o ext

\* utils.js resolvePath(filePath, basePath = process.cwd()); throws a
\* TypeError when filePath is not a string (see resolvePathThrows)
resolvePathThrows(filePath) == ~IsString(filePath)
resolvePath(filePath, basePath) ==
  pathResolve(IF isAbsolute(filePath) THEN <<filePath>> ELSE <<basePath, filePath>>)

------------------------------------------------------------------------------
(* utils.js: the uniform envelope *)

Quote == "\""
NL == "\n"
Space == " "

\* the own enumerable properties that spreading `...data` copies: none for
\* {} and for a missing argument, the index keys "0", "1", ... for a string
SpreadKeys(data) ==
  IF data = Undefined \/ data = NotAString THEN {}
  ELSE {ToString(i - 1) : i \in 1..Len(data)}

\* createSuccessResponse(message, data = {}): { content: [...], ...data }
createSuccessResponse(message, data) ==
  [k \in {"content"} \cup SpreadKeys(data) |->
     IF k = "content" THEN <<[type |-> "text", text |-> message]>>
     ELSE data[CHOOSE i \in 1..Len(data) : ToString(i - 1) = k]]

\* createErrorResponse(message, details = '')
createErrorResponse(message, details) ==
  [content |-> <<[type |-> "text",
                  text |-> IF Truthy(details)
                           THEN message \o <<NL, NL, "Details:", NL>> \o details
                           ELSE message]>>,
   isError |-> TRUE]

HasContent(e) == "content" \in DOMAIN e /\ Len(e["content"]) > 0
IsErrorEnvelope(e) == HasContent(e) /\ "isError" \in DOMAIN e /\ e["isError"] = TRUE
IsSuccessEnvelope(e) == HasContent(e) /\ "isError" \notin DOMAIN e
\* the text of the first content block
EnvelopeText(e) == e["content"][1].text

------------------------------------------------------------------------------
(* utils.js: the process runner *)

Indent2 == "  "
Indent4 == "    "
IsSpace(c) == c \in {Space, NL, Indent2, Indent4}
\* String.prototype.trim
RECURSIVE trim(_)
trim(s) ==
  IF s = <<>> THEN s
  ELSE IF IsSpace(s[1]) THEN trim(Tail(s))
  ELSE IF IsSpace(s[Len(s)]) THEN trim(SubSeq(s, 1, Len(s) - 1))
  ELSE s

\* What child_process.exec hands back for a child that ended as `outcome`
\* ([exit, stdout, stderr, cause]): the error of a non-zero exit carries
\* the message "Command failed: <command>\n<stderr>".
ExecErrorMessage(command, outcome) ==
  CASE outcome.exit = "nonzero" ->
         <<"Command failed:", Space>> \o command \o <<NL>> \o outcome.stderr
    [] outcome.exit = "maxbuffer" -> <<"stdout maxBuffer length exceeded">>
    [] OTHER -> <<"spawn ENOENT">>

\* executeCommand(command, options): never rejects
executeCommand(command, outcome) ==
  IF outcome.exit = "zero"
  THEN [success |-> TRUE,
        stdout  |-> trim(outcome.stdout),
        stderr  |-> trim(outcome.stderr),
        error   |-> Null]
  ELSE [success |-> FALSE,
        stdout  |-> IF Truthy(outcome.stdout) THEN trim(outcome.stdout) ELSE Empty,
        stderr  |-> IF Truthy(outcome.stderr) THEN trim(outcome.stderr) ELSE Empty,
        error   |-> ExecErrorMessage(command, outcome)]

\* psCommand.replace(/"/g, '\\"')
RECURSIVE EscapeQuotes(_)
EscapeQuotes(s) ==
  IF s = <<>> THEN s
  ELSE (IF Head(s) = Quote THEN <<"\\", Quote>> ELSE <<Head(s)>>) \o EscapeQuotes(Tail(s))

\* the command line executePowerShell(psCommand) runs
PowerShellCommand(psCommand) ==
  <<"powershell", Space, "-Command", Space, Quote>> \o EscapeQuotes(psCommand) \o <<Quote>>
executePowerShell(psCommand, outcome) ==
  executeCommand(PowerShellCommand(psCommand), outcome)

RECURSIVE JoinWith(_, _)
JoinWith(parts, sep) ==
  IF parts = <<>> THEN <<>>
  ELSE IF Len(parts) = 1 THEN Head(parts)
  ELSE Head(parts) \o sep \o JoinWith(Tail(parts), sep)

\* the command line executePython(pythonPath, scriptPath, args) runs
PythonCommand(pythonPath, scriptPath, args) ==
  pythonPath \o <<Space, Quote>> \o scriptPath \o <<Quote, Space>>
    \o JoinWith([i \in 1..Len(args) |-> <<Quote>> \o args[i] \o <<Quote>>], <<Space>>)
executePython(pythonPath, scriptPath, args, outcome) ==
  executeCommand(PythonCommand(pythonPath, scriptPath, args), outcome)

------------------------------------------------------------------------------
(* The filesystem and the installed package *)

\* a file or directory: who wrote it (0: there before the server started,
\* r: request r's handler or child process) and its text
Dir == [kind |-> "dir", by |-> 0, data |-> <<>>]
File(by, data) == [kind |-> "file", by |-> by, data |-> data]

\* fs.existsSync(p) on the filesystem f (a function from paths to entries)
existsSync(f, p) == p \in DOMAIN f
\* fs.writeFileSync(p, data) succeeds when the parent directory exists and p
\* is no directory; it throws otherwise
CanWriteIn(f, p, dir) ==
  /\ dir \in DOMAIN f
  /\ f[dir].kind = "dir"
  /\ (p \in DOMAIN f => f[p].kind = "file")
CanWrite(f, p) == CanWriteIn(f, p, parse(p).dir)
WriteFile(f, p, entry) == [q \in DOMAIN f \cup {p} |-> IF q = p THEN entry ELSE f[q]]
\* fs.readFileSync(p) throws on a directory
CanRead(f, p) == p \in DOMAIN f /\ f[p].kind = "file"

\* the directory the package is installed in
PackageDir == <<Sep, "pkg">>
\* config.js: PROJECT_ROOT = join(__dirname, '..')
PROJECT_ROOT == pathJoin(PackageDir \o <<Sep, "src">>, <<Dot, Dot>>)
\* generate-stub.js: PACKAGE_ROOT = resolve(__dirname, '..', '..')
PACKAGE_ROOT == pathResolve(<<PackageDir \o <<Sep, "src", Sep, "tools">>, <<Dot, Dot>>, <<Dot, Dot>>>>)
TEMPLATE_PATH == pathResolve(<<PACKAGE_ROOT, <<"docs">>, <<"TEMPLATE_Document", Dot, "md">>>>)

\* join(PROJECT_ROOT, 'tools', 'Dilon_Document_Compiler')
compilerDir == pathJoin(pathJoin(PROJECT_ROOT, <<"tools">>), <<"Dilon_Document_Compiler">>)
\* join(PROJECT_ROOT, 'docs')
docsDir == pathJoin(PROJECT_ROOT, <<"docs">>)

\* config.js getDilonCompilerPaths()
CompilerPathsIn(cdir, ddir) ==
  [scriptPath        |-> pathJoin(cdir, <<"generate_dilon_doc", Dot, "py">>),
   signatureTemplate |-> pathJoin(cdir, <<"TEMPLATE_Word_Signature", Dot, "docx">>),
   contentTemplate   |-> pathJoin(cdir, <<"TEMPLATE_Word_Content", Dot, "docx">>),
   documentTemplate  |-> pathJoin(ddir, <<"TEMPLATE_Document", Dot, "md">>),
   stylingGuide      |-> pathJoin(ddir, <<"MARKDOWN_STYLING_GUIDE", Dot, "md">>)]
getDilonCompilerPaths == CompilerPathsIn(compilerDir, docsDir)

\* config.js getPlantUMLStyleGuide()
getPlantUMLStyleGuide == pathJoin(docsDir, <<"PlantUML_Style_Guide", Dot, "md">>)

\* config.js getDocumentationPaths()
DocumentationPathsIn(ddir) ==
  [markdownStyling |-> pathJoin(ddir, <<"MARKDOWN_STYLING_GUIDE", Dot, "md">>),
   plantUmlStyling |-> pathJoin(ddir, <<"PlantUML_Style_Guide", Dot, "md">>)]
getDocumentationPaths == DocumentationPathsIn(docsDir)

------------------------------------------------------------------------------
(* config.js: the configuration provider *)

\* the two configuration files: absent, not JSON, or a JSON object
AbsentFile == [kind |-> "absent"]
GarbageFile == [kind |-> "garbage"]
JsonFile(obj) == [kind |-> "json", value |-> obj]

requiredFields == <<"pythonPath", "plantUmlPath", "pandocPath">>

\* requiredFields.filter(field => !config[field])
RECURSIVE FilterMissing(_, _)
FilterMissing(fields, obj) ==
  IF fields = <<>> THEN <<>>
  ELSE (IF Truthy(obj[Head(fields)]) THEN <<>> ELSE <<Head(fields)>>)
         \o FilterMissing(Tail(fields), obj)

\* lines 41-56: the chosen file is read, parsed and validated; any failure
\* is rethrown as "Failed to load configuration from <file>: <message>"
LoadFrom(configFile, which, warned, missingFields) ==
  IF configFile.kind = "garbage"
  THEN [threw |-> TRUE, warned |-> warned, read |-> which, missing |-> <<>>,
        message |-> <<"Failed to load configuration from", which, "Unexpected token">>]
  ELSE IF Len(missingFields) > 0
  THEN [threw |-> TRUE, warned |-> warned, read |-> which, missing |-> missingFields,
        message |-> <<"Failed to load configuration from", which,
                      "Missing required configuration fields:">> \o missingFields]
  ELSE [threw |-> FALSE, warned |-> warned, read |-> which, missing |-> <<>>,
        config |-> configFile.value]

\* loadConfig(): the configuration, or the error it throws; `warned` tells
\* whether the fallback warning was printed, `read` which file was read
loadConfig(files) ==
  IF files.user.kind # "absent"
  THEN LoadFrom(files.user, "user", FALSE,
         IF files.user.kind = "json"
         THEN FilterMissing(requiredFields, files.user.value) ELSE <<>>)
  ELSE IF files.example.kind = "absent"
  THEN [threw |-> TRUE, warned |-> TRUE, read |-> "none", missing |-> <<>>,
        message |-> <<"Neither config found">>]
  ELSE LoadFrom(files.example, "example", TRUE,
         IF files.example.kind = "json"
         THEN FilterMissing(requiredFields, files.example.value) ELSE <<>>)

\* validateToolPaths(config)
ValidateWith(f, config, compilerPaths, docPaths) ==
  [valid    |-> existsSync(f, compilerPaths.scriptPath),
   errors   |-> IF ~existsSync(f, compilerPaths.scriptPath)
                THEN <<"Dilon Compiler script not found">> ELSE <<>>,
   warnings |->
        (IF ~existsSync(f, compilerPaths.signatureTemplate) THEN <<"Signature template not found">> ELSE <<>>)
     \o (IF ~existsSync(f, compilerPaths.contentTemplate) THEN <<"Content template not found">> ELSE <<>>)
     \o (IF ~existsSync(f, docPaths.markdownStyling) THEN <<"Markdown styling guide not found">> ELSE <<>>)
     \o (IF ~existsSync(f, docPaths.plantUmlStyling) THEN <<"PlantUML styling guide not found">> ELSE <<>>)
     \o (IF ~existsSync(f, config.plantUmlPath) THEN <<"PlantUML directory not found">> ELSE <<>>)]
validateToolPaths(f, config) ==
  ValidateWith(f, config, getDilonCompilerPaths, getDocumentationPaths)

------------------------------------------------------------------------------
(* generate-stub.js: dilon_generate_stub *)

\* docs/TEMPLATE_Document.md: the front matter and the start of the body
TemplateText ==
  <<"---", NL,
    "title: \"", "Document Title", Quote, NL,
    "author: \"", "Author Name", Quote, NL,
    "department: \"", "Engineering", Quote, NL,
    "doc_number: \"", "DD_XXX_XXXXX", Quote, NL,
    "current_revision: \"", "1.0", Quote, NL,
    "regulatory_rep: \"", "Shannon Smith", Quote, NL,
    "quality_rep: \"", "Kevin Johnson", Quote, NL,
    "department_head: \"", "Josh Williams", Quote, NL,
    "revisions:", NL,
    Indent2, "- number: \"", "1.0", Quote, NL,
    Indent4, "description: \"", "Initial release", Quote, NL,
    Indent4, "eco_number: \"", "ECO-TBD", Quote, NL,
    Indent4, "eco_date: \"", "YYYY-MM-DD", Quote, NL,
    "---", NL, NL,
    "## 1. Purpose and Scope", NL>>

\* a template that lost its front matter
TemplateWithoutFrontMatter == <<"## 1. Purpose and Scope", NL>>

\* /^---[\r\n]+([\s\S]*?)[\r\n]+---/m
HasFrontMatter(text) ==
  \E i \in 1..Len(text) : \E j \in (i + 1)..Len(text) :
     /\ text[i] = "---" /\ (i = 1 \/ text[i - 1] = NL)
     /\ text[i + 1] = NL
     /\ text[j] = "---" /\ text[j - 1] = NL
     /\ j >= i + 3

\* Regular expressions over atoms.  A pattern is a sequence of elements:
\* AnyToQuote is `.*?"` (lazy, never across a newline), Whitespace is `\s+`,
\* any other element is a literal atom.
AnyToQuote == "<.*?\">"
Whitespace == "<\\s+>"

RECURSIVE SpaceRun(_, _)
SpaceRun(text, pos) ==
  IF pos <= Len(text) /\ IsSpace(text[pos]) THEN 1 + SpaceRun(text, pos + 1) ELSE 0

\* the position after the match of pat at pos, 0 when pat does not match there
RECURSIVE MatchFrom(_, _, _)
\* `\s+` at pos matched n atoms
MatchSpace(text, pos, pat, n) ==
  IF n = 0 THEN 0 ELSE MatchFrom(text, pos + n, Tail(pat))
\* `.*?"` at pos: J are the closing quotes after which the rest matches
MatchQuote(text, pat, J) ==
  IF J = {} THEN 0 ELSE MatchFrom(text, SetMin(J) + 1, Tail(pat))
MatchFrom(text, pos, pat) ==
  IF pat = <<>> THEN pos
  ELSE IF Head(pat) = Whitespace
  THEN MatchSpace(text, pos, pat, SpaceRun(text, pos))
  ELSE IF Head(pat) = AnyToQuote
  THEN MatchQuote(text, pat,
         {j \in pos..Len(text) :
            /\ text[j] = Quote
            /\ \A k \in pos..(j - 1) : text[k] # NL
            /\ MatchFrom(text, j + 1, Tail(pat)) # 0})
  ELSE IF pos <= Len(text) /\ text[pos] = Head(pat)
       THEN MatchFrom(text, pos + 1, Tail(pat))
       ELSE 0

\* the replacement string with its special patterns expanded: $& is the
\* matched text, $$ a dollar sign
RECURSIVE ExpandReplacement(_, _)
ExpandReplacement(repl, matched) ==
  IF repl = <<>> THEN <<>>
  ELSE (IF Head(repl) = "$&" THEN matched
        ELSE IF Head(repl) = "$$" THEN <<"$">>
        ELSE <<Head(repl)>>) \o ExpandReplacement(Tail(repl), matched)

\* the match from i up to e (exclusive) replaced
Splice(text, repl, i, e) ==
  SubSeq(text, 1, i - 1) \o ExpandReplacement(repl, SubSeq(text, i, e - 1))
    \o SubSeq(text, e, Len(text))
ReplaceFirst(text, pat, repl, i) == Splice(text, repl, i, MatchFrom(text, i, pat))
\* String.prototype.replace(regex, replacement) without the g flag
replace(text, pat, repl) ==
  IF \E i \in 1..Len(text) : MatchFrom(text, i, pat) # 0
  THEN ReplaceFirst(text, pat, repl,
         SetMin({i \in 1..Len(text) : MatchFrom(text, i, pat) # 0}))
  ELSE text

\* the replacement map of lines 136-149
StubReplacements(args) ==
  [title                |-> OrDefault(args.title, <<"Document Title">>),
   author               |-> OrDefault(args.author, <<"Author Name">>),
   department           |-> OrDefault(args.department, <<"--">>),
   doc_number           |-> OrDefault(args.doc_number, <<"DD_XXX_XXXXX">>),
   current_revision     |-> OrDefault(args.current_revision, <<"00">>),
   regulatory_rep       |-> OrDefault(args.regulatory_rep, <<"--">>),
   quality_rep          |-> OrDefault(args.quality_rep, <<"--">>),
   department_head      |-> OrDefault(args.department_head, <<"--">>),
   revision_number      |-> OrDefault(args.current_revision, <<"00">>),
   revision_description |-> OrDefault(args.revision_description, <<"Initial release">>),
   eco_number           |-> OrDefault(args.eco_number, <<"ECO-TBD">>),
   eco_date             |-> OrDefault(args.eco_date, <<"YYYY-MM-DD">>)]

\* one field replacement: replace(/key: ".*?"/, `key: "${value}"`)
ReplaceField(text, key, value) ==
  replace(text, <<key, AnyToQuote>>, <<key>> \o value \o <<Quote>>)

\* lines 152-169: the replacements applied to the template, in order
ApplyReplacements(templateContent, r) ==
  replace(
    ReplaceField(ReplaceField(ReplaceField(ReplaceField(
    ReplaceField(ReplaceField(ReplaceField(ReplaceField(templateContent,
      "title: \"", r.title),
      "author: \"", r.author),
      "department: \"", r.department),
      "doc_number: \"", r.doc_number),
      "current_revision: \"", r.current_revision),
      "regulatory_rep: \"", r.regulatory_rep),
      "quality_rep: \"", r.quality_rep),
      "department_head: \"", r.department_head),
    <<"- number: \"", AnyToQuote, Whitespace, "description: \"", AnyToQuote,
      Whitespace, "eco_number: \"", AnyToQuote, Whitespace, "eco_date: \"", AnyToQuote>>,
    <<"- number: \"">> \o r.revision_number \o <<Quote, NL,
      Indent4, "description: \"">> \o r.revision_description \o <<Quote, NL,
      Indent4, "eco_number: \"">> \o r.eco_number \o <<Quote, NL,
      Indent4, "eco_date: \"">> \o r.eco_date \o <<Quote>>)

\* lines 182-198: the success message
StubSuccessMessage(outputPath, r) ==
  <<"Document stub created successfully", NL, "Output:", Space>> \o outputPath
    \o <<NL, "Title:", Space>> \o r.title
    \o <<NL, "Author:", Space>> \o r.author
    \o <<NL, "Department:", Space>> \o r.department
    \o <<NL, "Doc Number:", Space>> \o r.doc_number
    \o <<NL, "Revision:", Space>> \o r.current_revision

\* a handler step: it returns an envelope, throws, or suspends at an await
Return(e) == [kind |-> "return", envelope |-> e]
Throw(msg) == [kind |-> "throw", message |-> msg]
TypeError == <<"TypeError">>

\* line 119: the output file already exists
StubOutputExists(f, outputPath) == existsSync(f, outputPath)

\* lines 135-203: the replacements are applied and the stub is written
StubWrite(f, self, outputPath, replacements, templateContent) ==
  IF ~CanWrite(f, outputPath)
  THEN [res |-> Return(createErrorResponse(<<"Failed to write file">>,
                   <<"Could not write output file:", Space, "ENOENT">>)),
        fs |-> f]
  ELSE [res |-> Return(createSuccessResponse(<<"Document stub created">>,
                   StubSuccessMessage(outputPath, replacements))),
        fs |-> WriteFile(f, outputPath,
                 File(self, ApplyReplacements(templateContent, replacements)))]

\* lines 118-133: the checks on the output path and on the template text
StubChecks(args, f, self, templateContent, outputPath) ==
  IF StubOutputExists(f, outputPath)
  THEN [res |-> Return(createErrorResponse(<<"File already exists">>,
                   <<"Output file already exists:", Space>> \o outputPath)),
        fs |-> f]
  ELSE IF ~HasFrontMatter(templateContent)
  THEN [res |-> Return(createErrorResponse(<<"Invalid template">>,
                   <<"Template does not contain valid YAML front matter">>)),
        fs |-> f]
  ELSE StubWrite(f, self, outputPath, StubReplacements(args), templateContent)

\* lines 96-203, the body of the try block: the result and the filesystem
\* it leaves; `self` is the request that runs it
StubBody(args, f, self) ==
  IF ~existsSync(f, TEMPLATE_PATH)
  THEN [res |-> Return(createErrorResponse(<<"Template not found">>,
                   <<"Template file does not exist at:", Space>> \o TEMPLATE_PATH)),
        fs |-> f]
  ELSE IF ~CanRead(f, TEMPLATE_PATH)
  THEN [res |-> Return(createErrorResponse(<<"Failed to read template">>,
                   <<"Could not read template file:", Space, "EISDIR">>)),
        fs |-> f]
  ELSE IF ~args.isObject \/ resolvePathThrows(args.output_path)
  THEN [res |-> Throw(TypeError), fs |-> f]
  ELSE StubChecks(args, f, self, f[TEMPLATE_PATH].data, resolvePath(args.output_path, cwd))

\* lines 205-210: the catch of dilon_generate_stub's execute
StubCatch(b) ==
  IF b.res.kind = "throw"
  THEN [res |-> Return(createErrorResponse(<<"Unexpected error">>,
                   <<"Failed to generate document stub:", Space>> \o b.res.message)),
        fs |-> b.fs]
  ELSE b

\* execute(args, config) of dilon_generate_stub: the try block and its catch
StubExecute(args, f, self) == StubCatch(StubBody(args, f, self))

------------------------------------------------------------------------------
(* generate-stub.js, second half: dilon_compile_doc *)

\* a handler suspended at `await`: the command it spawned and its locals
Await(phase, command, locals) ==
  [kind |-> "await", phase |-> phase, command |-> command, locals |-> locals]

\* line 276: the input file does not exist
CompileInputMissing(f, inputPath) == ~existsSync(f, inputPath)
\* lines 284-285: the extension, lower-cased, is not .md
CompileExtInvalid(inputPath) == toLowerCase(parse(inputPath).ext) # <<Dot, "md">>

\* format({ dir: parsed.dir, name: parsed.name, ext })
FormatParsed(parsed, ext) == format(parsed.dir, parsed.name, ext)

\* lines 332-340 and 348-356: a custom content template, after `first`
WithContent(f, first, contentTemplatePath) ==
  IF ~existsSync(f, contentTemplatePath)
  THEN [exit |-> "missing", what |-> "Content template not found",
        path |-> contentTemplatePath]
  ELSE [exit |-> "none", extra |-> <<first, contentTemplatePath>>]

\* lines 320-344: a custom signature template
WithSignature(args, f, compilerPaths, sigTemplatePath) ==
  IF ~existsSync(f, sigTemplatePath)
  THEN [exit |-> "missing", what |-> "Signature template not found",
        path |-> sigTemplatePath]
  ELSE IF Truthy(args.content_template)
  THEN IF resolvePathThrows(args.content_template) THEN [exit |-> "throw"]
       ELSE WithContent(f, sigTemplatePath, resolvePath(args.content_template, cwd))
  ELSE [exit |-> "none", extra |-> <<sigTemplatePath, compilerPaths.contentTemplate>>]

\* lines 317-357: the template arguments appended to [inputPath, outputPath];
\* "throw" and "missing" stand for the early exits
CompileTemplateArgs(args, f, compilerPaths) ==
  IF Truthy(args.signature_template)
  THEN IF resolvePathThrows(args.signature_template) THEN [exit |-> "throw"]
       ELSE WithSignature(args, f, compilerPaths, resolvePath(args.signature_template, cwd))
  ELSE IF Truthy(args.content_template)
  THEN IF resolvePathThrows(args.content_template) THEN [exit |-> "throw"]
       ELSE WithContent(f, compilerPaths.signatureTemplate,
                        resolvePath(args.content_template, cwd))
  ELSE [exit |-> "none", extra |-> <<>>]

\* lines 359-364: the compiler is spawned with pythonArgs
CompileSpawn(config, scriptPath, inputPath, outputPath, pythonArgs) ==
  Await("python", PythonCommand(config.pythonPath, scriptPath, pythonArgs),
        [inputPath |-> inputPath, outputPath |-> outputPath, pythonArgs |-> pythonArgs])

\* lines 305-364: the script check and the template arguments tmpl
CompileWithTemplates(f, config, compilerPaths, inputPath, outputPath, tmpl) ==
  IF ~existsSync(f, compilerPaths.scriptPath)
  THEN Return(createErrorResponse(<<"Dilon Compiler not found">>,
          <<"The compiler script is not at the expected location:", Space>>
            \o compilerPaths.scriptPath))
  ELSE IF tmpl.exit = "throw" THEN Throw(TypeError)
  ELSE IF tmpl.exit = "missing"
  THEN Return(createErrorResponse(<<tmpl.what>>,
          <<"Custom template does not exist:", Space>> \o tmpl.path))
  ELSE CompileSpawn(config, compilerPaths.scriptPath, inputPath, outputPath,
                    <<inputPath, outputPath>> \o tmpl.extra)

\* lines 305-306: the compiler paths
CompileWithPaths(args, f, config, compilerPaths, inputPath, outputPath) ==
  CompileWithTemplates(f, config, compilerPaths, inputPath, outputPath,
                       CompileTemplateArgs(args, f, compilerPaths))

\* lines 275-303: the checks on the input path and the output path
CompileChecks(args, f, config, inputPath) ==
  IF CompileInputMissing(f, inputPath)
  THEN Return(createErrorResponse(<<"Input file not found">>,
          <<"The specified Markdown file does not exist:", Space>> \o inputPath))
  ELSE IF CompileExtInvalid(inputPath)
  THEN Return(createErrorResponse(<<"Invalid input file">>,
          <<"Input file must be a Markdown (.md) file. Got:", Space>>
            \o toLowerCase(parse(inputPath).ext)))
  ELSE IF Truthy(args.output_word) /\ resolvePathThrows(args.output_word)
  THEN Throw(TypeError)
  ELSE CompileWithPaths(args, f, config, getDilonCompilerPaths, inputPath,
         IF Truthy(args.output_word)
         THEN resolvePath(args.output_word, cwd)
         ELSE FormatParsed(parse(inputPath), <<Dot, "docx">>))

\* lines 272-364: the try block up to the await
CompileBody(args, f, config) ==
  IF ~args.isObject \/ resolvePathThrows(args.input_markdown) THEN Throw(TypeError)
  ELSE CompileChecks(args, f, config, resolvePath(args.input_markdown, cwd))

\* line 375: the compiler left no file at the output path
CompileOutputMissing(f, outputPath) == ~existsSync(f, outputPath)

\* lines 366-389: the try block after the await
CompileAfterPython(locals, result, f) ==
  IF ~result.success
  THEN Return(createErrorResponse(<<"Document compilation failed">>,
          result.error \o <<NL, NL, "Stderr:", NL>> \o result.stderr
            \o <<NL, NL, "Stdout:", NL>> \o result.stdout))
  ELSE IF CompileOutputMissing(f, locals.outputPath)
  THEN Return(createErrorResponse(<<"Output file not created">>,
          <<"The compiler executed but did not create the output file at:", Space>>
            \o locals.outputPath \o <<NL, NL, "Stdout:", NL>> \o result.stdout
            \o <<NL, NL, "Stderr:", NL>> \o result.stderr))
  ELSE Return(createSuccessResponse(
          <<"Document compiled successfully!", NL, "Input:", Space>> \o locals.inputPath
            \o <<NL, "Output:", Space>> \o locals.outputPath \o <<NL>> \o result.stdout,
          Undefined))

\* lines 391-396: the catch of dilon_compile_doc's execute
CompileCatch(step) ==
  IF step.kind = "throw"
  THEN Return(createErrorResponse(<<"Unexpected error during compilation">>, step.message))
  ELSE step

------------------------------------------------------------------------------
(* plantuml.js: dilon_plantuml *)

NotRecognized == <<"not", Space, "recognized">>

\* line 60: the input file does not exist
RenderInputMissing(f, inputPath) == ~existsSync(f, inputPath)
\* lines 68-69: the extension, lower-cased, is not .puml
RenderExtInvalid(inputPath) == toLowerCase(parse(inputPath).ext) # <<Dot, "puml">>

\* line 105: plantuml ${formatFlag} "${inputPath}"
PlantUmlCommand(formatFlag, inputPath) ==
  <<"plantuml", Space>> \o formatFlag \o <<Space, Quote>> \o inputPath \o <<Quote>>
\* line 114: java -jar "${plantUmlJar}" ${formatFlag} "${inputPath}"
JavaCommand(plantUmlJar, formatFlag, inputPath) ==
  <<"java", Space, "-jar", Space, Quote>> \o plantUmlJar \o <<Quote, Space>> \o formatFlag
    \o <<Space, Quote>> \o inputPath \o <<Quote>>

\* lines 93-108: the jar check and the aliased command
RenderSpawn(f, inputPath, outputPath, outputFormat, plantUmlJar) ==
  IF ~existsSync(f, plantUmlJar)
  THEN Return(createErrorResponse(<<"PlantUML not found">>,
          <<"PlantUML jar file not found at:", Space>> \o plantUmlJar))
  ELSE Await("alias", PlantUmlCommand(<<"-t">> \o outputFormat, inputPath),
             [inputPath |-> inputPath, outputPath |-> outputPath,
              outputFormat |-> outputFormat, formatFlag |-> <<"-t">> \o outputFormat,
              plantUmlJar |-> plantUmlJar])

\* lines 80-94: the output path and the jar path
RenderWithFormat(args, f, config, inputPath, outputFormat) ==
  IF Truthy(args.output_path) /\ resolvePathThrows(args.output_path) THEN Throw(TypeError)
  ELSE IF ~IsString(config.plantUmlPath) THEN Throw(TypeError)
  ELSE RenderSpawn(f, inputPath,
         IF Truthy(args.output_path)
         THEN resolvePath(args.output_path, cwd)
         ELSE FormatParsed(parse(inputPath), <<Dot>> \o outputFormat),
         outputFormat,
         pathJoin(config.plantUmlPath, <<"plantuml", Dot, "jar">>))

\* lines 59-78: the checks on the input path and the format
RenderChecks(args, f, config, inputPath) ==
  IF RenderInputMissing(f, inputPath)
  THEN Return(createErrorResponse(<<"Input file not found">>,
          <<"The specified PlantUML file does not exist:", Space>> \o inputPath))
  ELSE IF RenderExtInvalid(inputPath)
  THEN Return(createErrorResponse(<<"Invalid input file">>,
          <<"Input file must be a PlantUML (.puml) file. Got:", Space>>
            \o toLowerCase(parse(inputPath).ext)))
  ELSE IF ~IsString(OrDefault(args.output_format, <<"png">>)) THEN Throw(TypeError)
  ELSE RenderWithFormat(args, f, config, inputPath,
                        toLowerCase(OrDefault(args.output_format, <<"png">>)))

\* lines 56-108: the try block up to the first await
RenderBody(args, f, config) ==
  IF ~args.isObject \/ resolvePathThrows(args.input_file) THEN Throw(TypeError)
  ELSE RenderChecks(args, f, config, resolvePath(args.input_file, cwd))

\* line 138: the renderer left no file at the output path
RenderOutputMissing(f, outputPath) == ~existsSync(f, outputPath)

\* lines 137-160: the output check and the success envelope
RenderFinish(locals, result, f) ==
  IF RenderOutputMissing(f, locals.outputPath)
  THEN Return(createErrorResponse(<<"Output file not created">>,
          <<"PlantUML executed but did not create the output file at:", Space>>
            \o locals.outputPath \o <<NL, NL, "Stdout:", NL>> \o result.stdout
            \o <<NL, NL, "Stderr:", NL>> \o result.stderr))
  ELSE Return(createSuccessResponse(
          <<"Diagram generated successfully!", NL, "Input:", Space>> \o locals.inputPath
            \o <<NL, "Output:", Space>> \o locals.outputPath
            \o <<NL, "Format:", Space>> \o toUpperCase(locals.outputFormat)
            \o (IF existsSync(f, getPlantUMLStyleGuide)
                THEN <<NL, "Styling Guide:", Space>> \o getPlantUMLStyleGuide
                ELSE <<>>),
          Undefined))

\* line 113: result.error && result.error.includes('not recognized')
ShouldFallback(result) == Truthy(result.error) /\ includes(result.error, NotRecognized)

\* lines 110-135 after the aliased command ended
RenderAfterAlias(locals, result, f) ==
  IF ~result.success
  THEN IF ShouldFallback(result)
       THEN Await("java",
                  JavaCommand(locals.plantUmlJar, locals.formatFlag, locals.inputPath),
                  locals)
       ELSE Return(createErrorResponse(<<"PlantUML execution failed">>,
               result.error \o <<NL, NL, "Stderr:", NL>> \o result.stderr
                 \o <<NL, NL, "Stdout:", NL>> \o result.stdout))
  ELSE RenderFinish(locals, result, f)

\* lines 115-128 after the java -jar command ended; result is the aliased
\* command's, whose stdout and stderr the java run's replace
RenderAfterJava(locals, result, javaResult, f) ==
  IF ~javaResult.success
  THEN Return(createErrorResponse(<<"PlantUML execution failed">>,
          <<"Both 'plantuml' command and 'java -jar' execution failed.", NL, "Error:", Space>>
            \o javaResult.error \o <<NL, NL, "Stderr:", NL>> \o javaResult.stderr
            \o <<NL, NL, "Stdout:", NL>> \o javaResult.stdout))
  ELSE RenderFinish(locals,
                    [result EXCEPT !.stdout = javaResult.stdout, !.stderr = javaResult.stderr],
                    f)

\* lines 162-167: the catch of dilon_plantuml's execute
RenderCatch(step) ==
  IF step.kind = "throw"
  THEN Return(createErrorResponse(<<"Unexpected error during diagram generation">>,
          step.message))
  ELSE step

------------------------------------------------------------------------------
(* server.js: startup and the dispatcher *)

ToolNames == {"dilon_compile_doc", "dilon_plantuml", "dilon_generate_stub"}

\* lines 319-328: the default branch of the switch
UnknownTool(name) ==
  Return([content |-> <<[type |-> "text", text |-> <<"Unknown tool:", Space, name>>]>>,
          isError |-> TRUE])

\* lines 330-340: the catch around the switch
DispatchCatch(name, step) ==
  IF step.kind = "throw"
  THEN Return([content |-> <<[type |-> "text",
                              text |-> <<"Error executing tool", Space, name, ":", Space>>
                                         \o step.message]>>,
               isError |-> TRUE])
  ELSE step

\* the filesystem is the one the handler was given
Unwritten(name, step, f) == [res |-> DispatchCatch(name, step), fs |-> f]
\* the filesystem is the one dilon_generate_stub left
StubDispatch(name, s) == [res |-> DispatchCatch(name, s.res), fs |-> s.fs]

\* lines 305-341, a request arriving: the switch runs the handler up to its
\* first await; the result and the filesystem it leaves
CallTool(name, args, f, cfg, self) ==
  IF name = "dilon_compile_doc"
  THEN Unwritten(name, CompileCatch(CompileBody(args, f, cfg)), f)
  ELSE IF name = "dilon_plantuml"
  THEN Unwritten(name, RenderCatch(RenderBody(args, f, cfg)), f)
  ELSE IF name = "dilon_generate_stub"
  THEN StubDispatch(name, StubExecute(args, f, self))
  ELSE Unwritten(name, UnknownTool(name), f)

\* lines 175-190: the configuration lc is validated
MainValidated(lc, validation) ==
  [state    |-> IF validation.valid THEN "serving" ELSE "exited",
   exitCode |-> IF validation.valid THEN 0 ELSE 1,
   config   |-> lc.config,
   diag     |-> [warned |-> lc.warned, read |-> lc.read, missing |-> <<>>,
                 errors |-> validation.errors, warnings |-> validation.warnings]]

\* lines 168-174: the configuration is loaded
MainLoaded(f, lc) ==
  IF lc.threw
  THEN [state |-> "exited", exitCode |-> 1, config |-> [loaded |-> FALSE],
        diag |-> [warned |-> lc.warned, read |-> lc.read, missing |-> lc.missing,
                  errors |-> <<>>, warnings |-> <<>>]]
  ELSE MainValidated(lc, validateToolPaths(f, lc.config))

\* lines 168-191 and 343-345: main() up to server.connect
main(files, f) == MainLoaded(f, loadConfig(files))

------------------------------------------------------------------------------
(* The installations and the requests the model draws from *)

ValidConfig ==
  [pythonPath |-> <<"python">>, plantUmlPath |-> <<Sep, "puml">>, pandocPath |-> <<"pandoc">>]

InWd(name) == cwd \o <<Sep>> \o name

\* the working directory: three documents, two custom Word templates
WorkFiles ==
  [p \in {InWd(<<"a", Dot, "MD">>), InWd(<<"c", Dot, "txt">>), InWd(<<"d", Dot, "puml">>),
          InWd(<<"not", Space, "recognized", Dot, "puml">>),
          InWd(<<"sig", Dot, "docx">>), InWd(<<"cont", Dot, "docx">>)} |-> File(0, <<"text">>)]

PlantUmlJar == <<Sep, "puml", Sep, "plantuml", Dot, "jar">>

\* a complete installation
FullFsWith(compilerPaths, docPaths) ==
  (cwd :> Dir) @@ WorkFiles
  @@ (compilerPaths.scriptPath :> File(0, <<"python">>))
  @@ (compilerPaths.signatureTemplate :> File(0, <<"docx">>))
  @@ (compilerPaths.contentTemplate :> File(0, <<"docx">>))
  @@ (docPaths.markdownStyling :> File(0, <<"guide">>))
  @@ (docPaths.plantUmlStyling :> File(0, <<"guide">>))
  @@ (TEMPLATE_PATH :> File(0, TemplateText))
  @@ (<<Sep, "puml">> :> Dir)
  @@ (PlantUmlJar :> File(0, <<"jar">>))
FullFs == FullFsWith(getDilonCompilerPaths, getDocumentationPaths)

Without(f, paths) == [p \in DOMAIN f \ paths |-> f[p]]
With(f, p, entry) == WriteFile(f, p, entry)

InstallationsOf(full, compilerPaths, docPaths, template) ==
  { \* everything in place
    [files |-> [user |-> JsonFile(ValidConfig), example |-> JsonFile(ValidConfig)],
     fs |-> full],
    \* no user configuration, no PlantUML, no stub template, no style guide
    [files |-> [user |-> AbsentFile, example |-> JsonFile(ValidConfig)],
     fs |-> Without(full, {PlantUmlJar, <<Sep, "puml">>, template,
                           docPaths.plantUmlStyling})],
    \* the stub template lost its front matter
    [files |-> [user |-> JsonFile(ValidConfig), example |-> AbsentFile],
     fs |-> With(full, template, File(0, TemplateWithoutFrontMatter))],
    \* the stub template path is a directory
    [files |-> [user |-> JsonFile(ValidConfig), example |-> AbsentFile],
     fs |-> With(Without(full, {compilerPaths.signatureTemplate}), template, Dir)],
    \* installations that cannot start
    [files |-> [user |-> AbsentFile, example |-> AbsentFile], fs |-> full],
    [files |-> [user |-> GarbageFile, example |-> JsonFile(ValidConfig)], fs |-> full],
    [files |-> [user |-> JsonFile([ValidConfig EXCEPT !.pandocPath = Undefined]),
                example |-> JsonFile(ValidConfig)], fs |-> full],
    [files |-> [user |-> JsonFile([ValidConfig EXCEPT !.pythonPath = Empty,
                                                      !.plantUmlPath = Undefined]),
                example |-> JsonFile(ValidConfig)], fs |-> full],
    [files |-> [user |-> JsonFile(ValidConfig), example |-> JsonFile(ValidConfig)],
     fs |-> Without(full, {compilerPaths.scriptPath, docPaths.markdownStyling})],
    \* a required key holds a number, and the compiler script is missing
    [files |-> [user |-> JsonFile([ValidConfig EXCEPT !.pandocPath = NotAString]),
                example |-> JsonFile(ValidConfig)],
     fs |-> Without(full, {compilerPaths.scriptPath})] }
Installations ==
  InstallationsOf(FullFs, getDilonCompilerPaths, getDocumentationPaths, TEMPLATE_PATH)

\* the arguments of a request; isObject = FALSE is a request without arguments
CompileArgsOf(input, output, sig, cont) ==
  [isObject |-> TRUE, input_markdown |-> input, output_word |-> output,
   signature_template |-> sig, content_template |-> cont]
RenderArgsOf(input, fmt, output) ==
  [isObject |-> TRUE, input_file |-> input, output_format |-> fmt, output_path |-> output]
StubArgsOf(output, title, revision) ==
  [isObject |-> TRUE, output_path |-> output, title |-> title, author |-> Undefined,
   department |-> Undefined, doc_number |-> Undefined, current_revision |-> revision,
   regulatory_rep |-> Undefined, quality_rep |-> Undefined, department_head |-> Undefined,
   revision_description |-> Undefined, eco_number |-> Undefined, eco_date |-> Undefined]
NoArgs == [isObject |-> FALSE]

N_md == <<"n", Dot, "md">>
A_MD == <<"a", Dot, "MD">>

CompileRequests ==
  {NoArgs}
  \cup {CompileArgsOf(i, Undefined, Undefined, Undefined) :
          i \in {Undefined, NotAString, InWd(<<"c", Dot, "txt">>), N_md, <<"n", Dot, "txt">>}}
  \cup {CompileArgsOf(A_MD, o, t[1], t[2]) :
          o \in {Undefined, <<Dot, Sep>> \o N_md},
          t \in {<<Undefined, Undefined>>, <<<<"sig", Dot, "docx">>, Undefined>>,
                 <<Undefined, <<"cont", Dot, "docx">>>>,
                 <<<<"sig", Dot, "docx">>, <<"cont", Dot, "docx">>>>,
                 <<<<"nosig", Dot, "docx">>, Undefined>>,
                 <<<<"sig", Dot, "docx">>, <<"nocont", Dot, "docx">>>>,
                 <<Undefined, <<"nocont", Dot, "docx">>>>}}
  \cup {CompileArgsOf(<<"n", Dot, "txt">>, Undefined, <<"nosig", Dot, "docx">>, Undefined),
        CompileArgsOf(InWd(<<"c", Dot, "txt">>), Undefined, Undefined,
                      <<"nocont", Dot, "docx">>)}

RenderRequests ==
  {NoArgs}
  \cup {RenderArgsOf(i, Undefined, Undefined) :
          i \in {Undefined, <<"c", Dot, "txt">>, N_md, <<"n", Dot, "PUML">>,
                 <<"not", Space, "recognized", Dot, "puml">>}}
  \cup {RenderArgsOf(<<"d", Dot, "puml">>, f, o) :
          f \in {Undefined, <<"SVG">>, NotAString}, o \in {Undefined, N_md}}
  \cup {RenderArgsOf(<<"d", Dot, "puml">>, <<"gif">>, Undefined)}

StubRequests ==
  {NoArgs}
  \cup {StubArgsOf(o, Undefined, Undefined) :
          o \in {Undefined, A_MD, <<"x", Sep>> \o N_md, InWd(N_md)}}
  \cup {StubArgsOf(N_md, t, r) : t \in {Undefined, <<"T">>}, r \in {Empty, <<"01">>}}
  \cup {StubArgsOf(N_md, <<"Costs in", Space, "$$">>, Undefined),
        [StubArgsOf(N_md, Undefined, <<"02">>)
           EXCEPT !.revision_description = <<"Saves", Space, "$$">>]}

UnknownNames == {"dilon_unknown"}

\* how a child process can end: exit status, output, and the true cause
Outcome(exit, stdout, stderr, cause) ==
  [exit |-> exit, stdout |-> stdout, stderr |-> stderr, cause |-> cause]
PythonOutcomes ==
  {Outcome("zero", <<"Document generated", NL>>, <<>>, "ok"),
   Outcome("nonzero", <<>>, <<"Traceback", NL>>, "exit"),
   Outcome("maxbuffer", <<"...">>, <<>>, "maxbuffer")}
AliasOutcomes ==
  {Outcome("zero", <<>>, <<>>, "ok"),
   Outcome("nonzero", <<>>,
           <<"The term 'plantuml' is", Space, "not", Space, "recognized", Space,
             "as the name of a cmdlet">>, "notfound"),
   Outcome("nonzero", <<>>, <<"Syntax error in diagram">>, "exit"),
   Outcome("maxbuffer", <<"...">>, <<>>, "maxbuffer")}
JavaOutcomes ==
  {Outcome("zero", <<>>, <<>>, "ok"),
   Outcome("nonzero", <<>>, <<"Unable to access jarfile">>, "exit")}

------------------------------------------------------------------------------
(* The state machine *)

VARIABLES
  serverState,   \* "starting", "serving" or "exited"
  exitCode,      \* the status process.exit was called with
  config,        \* the configuration main() loaded
  diag,          \* what startup printed to the diagnostic stream
  configFiles,   \* the user and the example configuration file
  fs,            \* the filesystem: path -> entry
  issued,        \* number of requests delivered so far
  inflight,      \* request id -> the request while its handler is suspended
  last,          \* the request answered most recently, with its answer
  resolution,    \* a call of resolvePath on its own (PathSpec); idle in Spec
  execution      \* a call of executeCommand on its own (ExecSpec); idle in Spec

vars == <<serverState, exitCode, config, diag, configFiles, fs, issued, inflight, last,
          resolution, execution>>

Requests == 1..MaxRequests
NoRequest == [phase |-> "none"]
Answered == [phase |-> "done"]
NoAnswer == [id |-> 0]
NoResolution == [phase |-> "idle"]
NoExecution == [phase |-> "idle"]

Init ==
  /\ \E inst \in Installations : configFiles = inst.files /\ fs = inst.fs
  /\ serverState = "starting"
  /\ exitCode = 0
  /\ config = [loaded |-> FALSE]
  /\ diag = [warned |-> FALSE, read |-> "none", missing |-> <<>>,
             errors |-> <<>>, warnings |-> <<>>]
  /\ issued = 0
  /\ inflight = [r \in Requests |-> NoRequest]
  /\ last = NoAnswer
  /\ resolution = NoResolution
  /\ execution = NoExecution

Started(m) ==
  /\ serverState' = m.state
  /\ exitCode' = m.exitCode
  /\ config' = m.config
  /\ diag' = m.diag

\* main(): load and validate the configuration, then connect the transport
Main ==
  /\ serverState = "starting"
  /\ Started(main(configFiles, fs))
  /\ UNCHANGED <<configFiles, fs, issued, inflight, last, resolution, execution>>

\* the path argument a tool reads its input from / writes its output to
InputArg(name, args) ==
  IF ~args.isObject THEN Undefined
  ELSE IF name = "dilon_compile_doc" THEN args.input_markdown
  ELSE IF name = "dilon_plantuml" THEN args.input_file
  ELSE Undefined
OutputArg(name, args) ==
  IF ~args.isObject THEN Undefined
  ELSE IF name = "dilon_compile_doc" THEN args.output_word
  ELSE IF name = "dilon_plantuml" THEN args.output_path
  ELSE IF name = "dilon_generate_stub" THEN args.output_path
  ELSE Undefined

\* what held when the request arrived, for its input i and its output o
PreOf(f, i, o) ==
  [inputExists  |-> IsString(i) /\ resolvePath(i, cwd) \in DOMAIN f,
   inputExt     |-> IF IsString(i) THEN parse(resolvePath(i, cwd)).ext ELSE <<>>,
   outputExists |-> IsString(o) /\ resolvePath(o, cwd) \in DOMAIN f,
   fs           |-> f]
Pre(name, args, f) == PreOf(f, InputArg(name, args), OutputArg(name, args))

\* the command line child_process.exec is given
SpawnedCommand(phase, command) ==
  IF phase = "python" THEN command ELSE PowerShellCommand(command)

\* the record of an answered request
Answer(id, name, args, pre, res, cmds, causes, results, wrote) ==
  [id |-> id, name |-> name, args |-> args, pre |-> pre, res |-> res,
   cmds |-> cmds, causes |-> causes, results |-> results, wrote |-> wrote]

\* request id ran up to c: it is answered, or suspended at its first await
Delivered(id, name, args, pre, c) ==
  /\ issued' = id
  /\ fs' = c.fs
  /\ IF c.res.kind = "await"
     THEN /\ inflight' = [inflight EXCEPT ![id] =
                [phase |-> c.res.phase, name |-> name, args |-> args, pre |-> pre,
                 locals |-> c.res.locals,
                 cmds |-> <<SpawnedCommand(c.res.phase, c.res.command)>>,
                 causes |-> <<>>, results |-> <<>>, wrote |-> {}]]
          /\ UNCHANGED last
     ELSE /\ inflight' = [inflight EXCEPT ![id] = Answered]
          /\ last' = Answer(id, name, args, pre, c.res, <<>>, <<>>, <<>>,
                            {p \in DOMAIN c.fs : p \notin DOMAIN fs \/ c.fs[p] # fs[p]})

\* the transport delivers a tools/call request: the dispatcher runs the
\* handler until it returns or suspends at its first await
Deliver(name, args) ==
  /\ serverState = "serving"
  /\ issued < MaxRequests
  /\ Delivered(issued + 1, name, args, Pre(name, args, fs),
               CallTool(name, args, fs, config, issued + 1))
  /\ UNCHANGED <<serverState, exitCode, config, diag, configFiles, resolution, execution>>

CallCompile == \E args \in CompileRequests : Deliver("dilon_compile_doc", args)
CallRender == \E args \in RenderRequests : Deliver("dilon_plantuml", args)
CallStub == \E args \in StubRequests : Deliver("dilon_generate_stub", args)
CallUnknown == \E name \in UnknownNames : Deliver(name, NoArgs)

\* where the child process of a suspended request writes its output: the
\* compiler at its second argument, the renderer beside its input
ChildOutputPath(req) ==
  IF req.phase = "python" THEN req.locals.pythonArgs[2]
  ELSE FormatParsed(parse(req.locals.inputPath), <<Dot>> \o req.locals.outputFormat)

ChildWritesAt(r, p) ==
  /\ CanWrite(fs, p)
  /\ fs' = WriteFile(fs, p, File(r, <<"output of", inflight[r].phase>>))
  /\ inflight' = [inflight EXCEPT ![r].wrote = {p}]

\* a running child process writes its output file
ChildWrites(r) ==
  /\ inflight[r].phase \in {"python", "alias", "java"}
  /\ inflight[r].wrote = {}
  /\ ChildWritesAt(r, ChildOutputPath(inflight[r]))
  /\ UNCHANGED <<serverState, exitCode, config, diag, configFiles, issued, last, resolution, execution>>

\* the handler of request r resumes with `step` after its child ended with
\* `result`
Resume(r, cause, result, step) ==
  /\ IF step.kind = "await"
     THEN /\ inflight' = [inflight EXCEPT ![r] =
                [@ EXCEPT !.phase = step.phase,
                          !.cmds = Append(@, SpawnedCommand(step.phase, step.command)),
                          !.causes = Append(@, cause),
                          !.results = Append(@, result)]]
          /\ UNCHANGED last
     ELSE /\ inflight' = [inflight EXCEPT ![r] = Answered]
          /\ last' = Answer(r, inflight[r].name, inflight[r].args, inflight[r].pre, step,
                            inflight[r].cmds, Append(inflight[r].causes, cause),
                            Append(inflight[r].results, result), inflight[r].wrote)
  /\ UNCHANGED <<serverState, exitCode, config, diag, configFiles, fs, issued, resolution, execution>>

\* the compiler of request r ended with `result`
PythonResumes(r, cause, result) ==
  Resume(r, cause, result,
         DispatchCatch(inflight[r].name,
           CompileCatch(CompileAfterPython(inflight[r].locals, result, fs))))
\* the compiler process of request r ends
PythonExit(r) ==
  /\ inflight[r].phase = "python"
  /\ \E outcome \in PythonOutcomes :
       PythonResumes(r, outcome.cause, executeCommand(inflight[r].cmds[1], outcome))

\* the aliased command of request r ended with `result`
AliasResumes(r, cause, result) ==
  Resume(r, cause, result,
         DispatchCatch(inflight[r].name,
           RenderCatch(RenderAfterAlias(inflight[r].locals, result, fs))))
\* the aliased plantuml command of request r ends
AliasExit(r) ==
  /\ inflight[r].phase = "alias"
  /\ \E outcome \in AliasOutcomes :
       AliasResumes(r, outcome.cause, executeCommand(inflight[r].cmds[1], outcome))

\* the java -jar command of request r ended with `javaResult`
JavaResumes(r, cause, javaResult) ==
  Resume(r, cause, javaResult,
         DispatchCatch(inflight[r].name,
           RenderCatch(RenderAfterJava(inflight[r].locals, inflight[r].results[1],
                                       javaResult, fs))))
\* the java -jar command of request r ends
JavaExit(r) ==
  /\ inflight[r].phase = "java"
  /\ \E outcome \in JavaOutcomes :
       JavaResumes(r, outcome.cause, executeCommand(inflight[r].cmds[2], outcome))

Next ==
  \/ Main
  \/ CallCompile
  \/ CallRender
  \/ CallStub
  \/ CallUnknown
  \/ \E r \in Requests : ChildWrites(r)
  \/ \E r \in Requests : PythonExit(r)
  \/ \E r \in Requests : AliasExit(r)
  \/ \E r \in Requests : JavaExit(r)

Spec == Init /\ [][Next]_vars

\* every external process ends: exec settles its promise and the event loop
\* resumes the handler that awaits it
ProcessesEnd ==
  \A r \in Requests :
    WF_vars(PythonExit(r)) /\ WF_vars(AliasExit(r)) /\ WF_vars(JavaExit(r))
\* the server starts in the complete installation
LiveInit == Init /\ fs = FullFs /\ configFiles.user.kind = "json"
LiveSpec == LiveInit /\ [][Next]_vars /\ ProcessesEnd

------------------------------------------------------------------------------
(* The path resolver on its own: resolvePath is called with a path and a   *)
(* base, with the same base ending in a separator, and then on its own     *)
(* result with another base.                                               *)

\* paths handed to resolvePath
FilePaths ==
  {<<>>, N_md, <<Dot, Sep>> \o N_md, <<Dot, Dot, Sep, "x">>, <<"x", Sep, Dot, Dot, Sep, "y">>,
   <<"x", Sep>>, <<"x", Sep, Sep, "y">>, <<Dot, Dot, Sep, Dot, Dot, Sep, Dot, Dot>>,
   <<Sep>>, <<Sep, "a">>, <<Sep, "a", Sep>>, <<Sep, "a", Sep, Dot, Dot, Sep, "b">>,
   <<Sep, Dot, Dot, Sep, "a">>, <<Sep, Sep, "a", Sep, Dot, Sep, "b">>}
\* base directories, none ending in a separator
BasePaths ==
  {cwd, <<Sep, "a", Sep, "b">>, <<Sep, "a", Sep, Dot, Dot>>, <<Sep, "a", Sep, Sep, "b">>,
   <<"r">>, <<Dot, Dot, Sep, "r">>}
\* bases for resolving a second time
OtherBases == {cwd, <<Sep>>, <<Sep, "a", Sep>>, <<"r", Sep>>}

PathInit ==
  /\ \E p \in FilePaths, b \in BasePaths, o \in OtherBases :
       resolution = [phase |-> "called", filePath |-> p, basePath |-> b, otherBase |-> o]
  /\ serverState = "starting"
  /\ exitCode = 0
  /\ config = [loaded |-> FALSE]
  /\ diag = [warned |-> FALSE, read |-> "none", missing |-> <<>>,
             errors |-> <<>>, warnings |-> <<>>]
  /\ configFiles = [user |-> [kind |-> "absent"], example |-> [kind |-> "absent"]]
  /\ fs = (cwd :> Dir)
  /\ issued = 0
  /\ inflight = [r \in Requests |-> NoRequest]
  /\ last = NoAnswer
  /\ execution = NoExecution

\* resolvePath(filePath, basePath) and resolvePath(filePath, basePath + "/")
Resolve ==
  /\ resolution.phase = "called"
  /\ resolution' =
       [phase |-> "resolved", filePath |-> resolution.filePath,
        basePath |-> resolution.basePath, otherBase |-> resolution.otherBase,
        result |-> resolvePath(resolution.filePath, resolution.basePath),
        withSeparator |-> resolvePath(resolution.filePath, resolution.basePath \o <<Sep>>),
        fromOther |-> resolvePath(resolution.filePath, resolution.otherBase)]
  /\ UNCHANGED <<serverState, exitCode, config, diag, configFiles, fs, issued, inflight, last,
                 execution>>

\* resolvePath(result, otherBase)
ResolveAgain ==
  /\ resolution.phase = "resolved"
  /\ resolution' = [phase |-> "again", first |-> resolution,
                    result |-> resolvePath(resolution.result, resolution.otherBase)]
  /\ UNCHANGED <<serverState, exitCode, config, diag, configFiles, fs, issued, inflight, last,
                 execution>>

PathNext == Resolve \/ ResolveAgain

PathSpec == PathInit /\ [][PathNext]_vars

------------------------------------------------------------------------------
(* The process runner on its own: executeCommand is called with a command  *)
(* whose child process ends in one of the ways exec reports.               *)

\* command lines handed to executeCommand
ExecCommands ==
  {PowerShellCommand(PlantUmlCommand(<<"-t", "png">>, InWd(<<"d", Dot, "puml">>))),
   PythonCommand(<<"python">>, getDilonCompilerPaths.scriptPath,
                 <<InWd(A_MD), InWd(<<"a", Dot, "docx">>)>>),
   <<"java", Space, "-version">>}
\* what a child process can have written to a stream when it ends
StreamTexts == {Empty, <<"out">>, <<Space, "out", NL>>, <<NL, "line", NL, "line", NL>>}
\* how the child can end: with status 0; with another status, by exceeding
\* maxBuffer, or by failing to spawn, the error then carrying the streams or
\* (a spawn failure) nothing
ExecOutcomes ==
  {Outcome("zero", o, e, "ok") : o \in StreamTexts, e \in StreamTexts}
  \cup {Outcome(x[1], o, e, x[2]) :
          x \in {<<"nonzero", "exit">>, <<"maxbuffer", "maxbuffer">>},
          o \in StreamTexts, e \in StreamTexts}
  \cup {Outcome("spawn", Undefined, Undefined, "spawn")}

ExecInit ==
  /\ \E c \in ExecCommands, o \in ExecOutcomes :
       execution = [phase |-> "called", command |-> c, outcome |-> o]
  /\ serverState = "starting"
  /\ exitCode = 0
  /\ config = [loaded |-> FALSE]
  /\ diag = [warned |-> FALSE, read |-> "none", missing |-> <<>>,
             errors |-> <<>>, warnings |-> <<>>]
  /\ configFiles = [user |-> [kind |-> "absent"], example |-> [kind |-> "absent"]]
  /\ fs = (cwd :> Dir)
  /\ issued = 0
  /\ inflight = [r \in Requests |-> NoRequest]
  /\ last = NoAnswer
  /\ resolution = NoResolution

\* the promise of executeCommand(command) settles
Execute ==
  /\ execution.phase = "called"
  /\ execution' = [phase |-> "returned", command |-> execution.command,
                   outcome |-> execution.outcome,
                   result |-> executeCommand(execution.command, execution.outcome)]
  /\ UNCHANGED <<serverState, exitCode, config, diag, configFiles, fs, issued, inflight, last,
                 resolution>>

ExecNext == Execute

ExecSpec == ExecInit /\ [][ExecNext]_vars

------------------------------------------------------------------------------
(* Properties *)

\* request r is suspended at an await, its child process running
Suspended(r) == inflight[r].phase \in {"python", "alias", "java"}
\* some request has been answered; `last` is its record
SomeAnswer == last.id # 0
LastIs(name) == SomeAnswer /\ last.name = name
\* the first line of the answer
LastTitle == EnvelopeText(last.res.envelope)[1]
LastIsError == last.res.kind = "return" /\ IsErrorEnvelope(last.res.envelope)
LastIsSuccess == last.res.kind = "return" /\ IsSuccessEnvelope(last.res.envelope)

\* the output path of a compile request / a render request whose input is a
\* string
CompileOutputOf(args) ==
  IF Truthy(args.output_word) THEN resolvePath(args.output_word, cwd)
  ELSE FormatParsed(parse(resolvePath(args.input_markdown, cwd)), <<Dot, "docx">>)
RenderOutputOf(args) ==
  IF Truthy(args.output_path) THEN resolvePath(args.output_path, cwd)
  ELSE FormatParsed(parse(resolvePath(args.input_file, cwd)),
                    <<Dot>> \o toLowerCase(OrDefault(args.output_format, <<"png">>)))

StubOutputOf(args) == resolvePath(args.output_path, cwd)
\* the stub template can be read and has its front matter
StubTemplateUsable(f) == CanRead(f, TEMPLATE_PATH) /\ HasFrontMatter(f[TEMPLATE_PATH].data)

\* the aliased command failed and its error description contains the
\* phrase "not recognized"
AliasNotRecognized(results) ==
  /\ Len(results) >= 1
  /\ ~results[1].success
  /\ Truthy(results[1].error)
  /\ includes(results[1].error, NotRecognized)
\* java -jar "<jar>" <flag> "<input>" for the flag and the input of args
FallbackCommandOf(args, cfg) ==
  PowerShellCommand(
    JavaCommand(pathJoin(cfg.plantUmlPath, <<"plantuml", Dot, "jar">>),
                <<"-t">> \o toLowerCase(OrDefault(args.output_format, <<"png">>)),
                resolvePath(args.input_file, cwd)))

\* C1: a compile-document or render-diagram request whose input path does
\* not exist is answered with an error envelope, and while it is handled no
\* process is spawned and no file is written: it is never suspended at an
\* await, and its answer records no command and no write.
C1_MissingInputRejected ==
  /\ \A r \in Requests : Suspended(r) => inflight[r].pre.inputExists
  /\ (SomeAnswer /\ last.name \in {"dilon_compile_doc", "dilon_plantuml"}
        /\ ~last.pre.inputExists)
       => LastIsError /\ last.cmds = <<>> /\ last.wrote = {}

\* a render request for a path that is not on disk was answered
C1_Witness ==
  /\ LastIs("dilon_plantuml")
  /\ last.args.isObject /\ IsString(last.args.input_file)
  /\ ~last.pre.inputExists
  /\ LastIsError /\ LastTitle = "Input file not found"

\* C2 as stated: a generate-stub call for an output path that does not
\* exist beforehand succeeds and creates the file (the template being in
\* place).
C2_FirstCallAlwaysSucceeds ==
  (LastIs("dilon_generate_stub") /\ last.args.isObject
     /\ IsString(last.args.output_path) /\ ~last.pre.outputExists
     /\ StubTemplateUsable(last.pre.fs))
    => LastIsSuccess /\ last.wrote = {StubOutputOf(last.args)}

\* C2, amended: a generate-stub call for an output path that does not exist
\* beforehand succeeds and creates the file when the template can be read,
\* has its front matter and the file can be written; a call for an output
\* path that exists is answered with an error envelope (the conflict "File
\* already exists" when the template can be read) and writes nothing.
C2_StubRefusesExisting ==
  (LastIs("dilon_generate_stub") /\ last.args.isObject
     /\ IsString(last.args.output_path)) =>
    /\ (~last.pre.outputExists /\ StubTemplateUsable(last.pre.fs)
          /\ CanWrite(last.pre.fs, StubOutputOf(last.args)))
         => /\ LastIsSuccess
            /\ last.wrote = {StubOutputOf(last.args)}
            /\ existsSync(fs, StubOutputOf(last.args))
    /\ last.pre.outputExists
         => /\ LastIsError
            /\ last.wrote = {}
            /\ CanRead(last.pre.fs, TEMPLATE_PATH) => LastTitle = "File already exists"

\* a second call for the path an earlier call created was refused
C2_Witness ==
  /\ LastIs("dilon_generate_stub") /\ last.args.isObject
  /\ IsString(last.args.output_path)
  /\ last.pre.outputExists
  /\ last.pre.fs[StubOutputOf(last.args)].by \in Requests
  /\ last.pre.fs[StubOutputOf(last.args)].data[1] = "---"
  /\ LastIsError /\ LastTitle = "File already exists"

\* C3: compile-document answers with a success envelope only if the compiler
\* process succeeded and the output file exists at the resolved output path;
\* after a compiler that exited 0 without a file at the output path the
\* answer is the error envelope "Output file not created".
C3_CompileSuccessNeedsOutput ==
  LastIs("dilon_compile_doc") =>
    /\ LastIsSuccess =>
         /\ last.causes = <<"ok">>
         /\ last.results[1].success
         /\ existsSync(fs, CompileOutputOf(last.args))
    /\ (last.causes = <<"ok">> /\ ~existsSync(fs, CompileOutputOf(last.args)))
         => LastIsError /\ LastTitle = "Output file not created"

\* the compiler exited 0, left no file, and the request was answered
C3_Witness ==
  /\ LastIs("dilon_compile_doc")
  /\ last.causes = <<"ok">>
  /\ ~existsSync(fs, CompileOutputOf(last.args))
  /\ LastIsError

\* C4: render-diagram answers with a success envelope only if the last
\* renderer run (the aliased command, or the java -jar fallback) succeeded
\* and a file exists at the resolved output path; a successful run without
\* a file at the output path is answered with the error envelope "Output
\* file not created", on either path.
C4_RenderSuccessNeedsOutput ==
  LastIs("dilon_plantuml") =>
    /\ LastIsSuccess =>
         /\ last.causes # <<>>
         /\ last.causes[Len(last.causes)] = "ok"
         /\ last.results[Len(last.results)].success
         /\ Len(last.causes) = 2 => AliasNotRecognized(last.results)
         /\ existsSync(fs, RenderOutputOf(last.args))
    /\ (last.causes # <<>> /\ last.causes[Len(last.causes)] = "ok"
          /\ ~existsSync(fs, RenderOutputOf(last.args)))
         => LastIsError /\ LastTitle = "Output file not created"

\* the fallback succeeded, left no file, and the request was answered
C4_Witness ==
  /\ LastIs("dilon_plantuml")
  /\ Len(last.causes) = 2 /\ last.causes[2] = "ok"
  /\ ~existsSync(fs, RenderOutputOf(last.args))
  /\ LastIsError

\* C5 as stated: after an aliased command that failed with "not
\* recognized", an error envelope is returned only after the fallback has
\* also failed.
C5_ErrorOnlyAfterFallbackFailed ==
  (LastIs("dilon_plantuml") /\ AliasNotRecognized(last.results) /\ LastIsError)
    => Len(last.results) = 2 /\ ~last.results[2].success

\* C5, amended: when the aliased command fails with an error description
\* containing "not recognized", the handler runs java -jar exactly once,
\* with the same format flag and input path, before it answers; the answer
\* is the envelope "PlantUML execution failed" only if the fallback failed,
\* and any other error envelope is "Output file not created" after a
\* fallback that succeeded.
C5_FallbackOnce ==
  /\ \A r \in Requests : inflight[r].phase = "java" =>
       /\ Len(inflight[r].cmds) = 2
       /\ inflight[r].cmds[2] = FallbackCommandOf(inflight[r].args, config)
  /\ (LastIs("dilon_plantuml") /\ AliasNotRecognized(last.results)) =>
       /\ Len(last.cmds) = 2 /\ Len(last.results) = 2
       /\ last.cmds[2] = FallbackCommandOf(last.args, config)
       /\ (LastIsError /\ LastTitle = "PlantUML execution failed")
            => ~last.results[2].success
       /\ (LastIsError /\ last.results[2].success)
            => LastTitle = "Output file not created"

\* the alias was not found, the fallback failed too, and the request was
\* answered
C5_Witness ==
  /\ LastIs("dilon_plantuml")
  /\ AliasNotRecognized(last.results)
  /\ last.causes = <<"notfound", "exit">>
  /\ LastIsError /\ LastTitle = "PlantUML execution failed"

\* C6: when the aliased command fails for a reason other than the command
\* not being found (a non-zero exit of the renderer, a buffer overflow), the
\* handler answers with an error envelope at once and java -jar is never
\* spawned: exactly one process was spawned for the request.
C6_OtherFailuresNoFallback ==
  /\ \A r \in Requests : inflight[r].phase = "java" =>
       inflight[r].causes[1] = "notfound"
  /\ (LastIs("dilon_plantuml") /\ last.causes # <<>>
        /\ last.causes[1] \in {"exit", "maxbuffer"})
       => LastIsError /\ Len(last.cmds) = 1

\* C7: a request whose name is not a registered one is answered with the
\* error envelope "Unknown tool: <name>"; no handler runs for it, so it is
\* never suspended, spawns no process and writes no file.
C7_UnknownToolRejected ==
  /\ \A r \in Requests : Suspended(r) => inflight[r].name \in ToolNames
  /\ (SomeAnswer /\ last.name \notin ToolNames) =>
       /\ LastIsError
       /\ EnvelopeText(last.res.envelope) = <<"Unknown tool:", Space, last.name>>
       /\ last.cmds = <<>>
       /\ last.wrote = {}

\* a request for an unregistered name was answered
C7_Witness ==
  /\ SomeAnswer /\ last.name = "dilon_unknown"
  /\ LastIsError

\* C8: once the server serves, every step leaves it serving with its exit
\* status untouched; every delivered request is suspended or answered; an
\* answered request stays answered, so no request is answered twice; every
\* answer is an envelope with content, and it is an error envelope when the
\* handler threw (a request without arguments).
C8_EveryRequestAnswered ==
  [][/\ serverState = "serving" => (serverState' = "serving" /\ exitCode' = exitCode)
     /\ \A r \in Requests : inflight[r] = Answered => inflight'[r] = Answered
     /\ \A r \in Requests : r <= issued' => inflight'[r] # NoRequest
     /\ last' # last =>
          /\ last'.id <= issued'
          /\ inflight[last'.id] # Answered
          /\ inflight'[last'.id] = Answered
          /\ last'.res.kind = "return"
          /\ HasContent(last'.res.envelope)
          /\ (last'.name \in ToolNames /\ ~last'.args.isObject)
               => IsErrorEnvelope(last'.res.envelope)]_vars

\* a handler threw on a request without arguments, the request was answered
\* with an error envelope and the server still serves
C8_Witness ==
  /\ LastIs("dilon_generate_stub")
  /\ ~last.args.isObject
  /\ LastIsError /\ LastTitle = "Unexpected error"
  /\ serverState = "serving"

\* the operation of the last answer did what it is for
OperationSucceeded ==
  CASE last.name = "dilon_compile_doc" ->
         /\ last.causes = <<"ok">>
         /\ existsSync(fs, CompileOutputOf(last.args))
    [] last.name = "dilon_plantuml" ->
         /\ last.causes # <<>> /\ last.causes[Len(last.causes)] = "ok"
         /\ existsSync(fs, RenderOutputOf(last.args))
    [] last.name = "dilon_generate_stub" ->
         /\ last.wrote = {StubOutputOf(last.args)}
         /\ existsSync(fs, StubOutputOf(last.args))
    [] OTHER -> FALSE

\* C9: every answer is exactly one of a success envelope (content, no error
\* flag) and an error envelope (content, isError = TRUE), and a success
\* envelope is never the answer of an operation that failed.
C9_OneOfTwoEnvelopes ==
  SomeAnswer =>
    /\ last.res.kind = "return"
    /\ HasContent(last.res.envelope)
    /\ IsSuccessEnvelope(last.res.envelope) # IsErrorEnvelope(last.res.envelope)
    /\ IsSuccessEnvelope(last.res.envelope) => OperationSucceeded

\* generate-stub answered with a success envelope, which carries the
\* characters of the message it was given as data
C9_Witness ==
  /\ LastIs("dilon_generate_stub")
  /\ LastIsSuccess
  /\ "0" \in DOMAIN last.res.envelope

\* C10: a compile-document request for an existing file whose extension,
\* lower-cased, is not .md is answered with an error envelope and spawns no
\* process: it is never suspended and its answer records no command.
C10_NonMarkdownRejected ==
  /\ \A r \in Requests :
       (Suspended(r) /\ inflight[r].name = "dilon_compile_doc")
         => toLowerCase(inflight[r].pre.inputExt) = <<Dot, "md">>
  /\ (LastIs("dilon_compile_doc") /\ last.pre.inputExists
        /\ toLowerCase(last.pre.inputExt) # <<Dot, "md">>)
       => LastIsError /\ last.cmds = <<>>

\* a compile request for an existing .txt file was answered
C10_Witness ==
  /\ LastIs("dilon_compile_doc")
  /\ last.pre.inputExists
  /\ last.pre.inputExt = <<Dot, "txt">>
  /\ LastIsError /\ LastTitle = "Invalid input file"

\* the document generate-stub is to write when no metadata is given: the
\* template text with the default values in its front matter
DefaultStubText ==
  <<"---", NL,
    "title: \"", "Document Title", Quote, NL,
    "author: \"", "Author Name", Quote, NL,
    "department: \"", "--", Quote, NL,
    "doc_number: \"", "DD_XXX_XXXXX", Quote, NL,
    "current_revision: \"", "00", Quote, NL,
    "regulatory_rep: \"", "--", Quote, NL,
    "quality_rep: \"", "--", Quote, NL,
    "department_head: \"", "--", Quote, NL,
    "revisions:", NL,
    Indent2, "- number: \"", "00", Quote, NL,
    Indent4, "description: \"", "Initial release", Quote, NL,
    Indent4, "eco_number: \"", "ECO-TBD", Quote, NL,
    Indent4, "eco_date: \"", "YYYY-MM-DD", Quote, NL,
    "---", NL, NL,
    "## 1. Purpose and Scope", NL>>

MetadataFields ==
  {"title", "author", "department", "doc_number", "current_revision",
   "regulatory_rep", "quality_rep", "department_head", "revision_description",
   "eco_number", "eco_date"}
\* the request gives an output path and no metadata field
OnlyOutputPath(args) ==
  /\ args.isObject
  /\ IsString(args.output_path)
  /\ \A k \in MetadataFields : args[k] = Undefined

\* C11: a generate-stub request with only output_path set, once it
\* succeeds, has written the template with current_revision "00", the
\* department and the three representatives "--", and one revision entry
\* with number "00", "Initial release", "ECO-TBD" and "YYYY-MM-DD", although
\* the template carries "1.0", "Engineering" and names in those fields.
C11_DefaultFields ==
  [][(last' # last /\ last'.name = "dilon_generate_stub"
        /\ OnlyOutputPath(last'.args) /\ IsSuccessEnvelope(last'.res.envelope))
       => /\ existsSync(fs', StubOutputOf(last'.args))
          /\ fs'[StubOutputOf(last'.args)].data = DefaultStubText
          /\ fs[TEMPLATE_PATH].data = TemplateText]_vars

\* a stub was written for a request that gave only its output path
C11_Witness ==
  /\ LastIs("dilon_generate_stub")
  /\ OnlyOutputPath(last.args)
  /\ LastIsSuccess
  /\ existsSync(fs, StubOutputOf(last.args))
  /\ fs[StubOutputOf(last.args)].by = last.id
  /\ fs[StubOutputOf(last.args)].data = DefaultStubText

\* the configuration file loadConfig reads
ChosenConfigFile ==
  IF configFiles.user.kind # "absent" THEN configFiles.user ELSE configFiles.example
\* main() has run and loadConfig returned a configuration
ConfigLoaded == serverState # "starting" /\ "loaded" \notin DOMAIN config
\* the required keys of a parsed file that are not non-empty strings
NotNonEmptyStrings(obj) ==
  {requiredFields[i] : i \in {j \in 1..Len(requiredFields) :
      ~IsString(obj[requiredFields[j]]) \/ obj[requiredFields[j]] = Empty}}

\* C12: loadConfig succeeds if and only if each of the three required keys
\* holds a non-empty string; otherwise the error names exactly the keys
\* that are missing or invalid.
C12_LoadIffNonEmptyStrings ==
  (serverState # "starting" /\ ChosenConfigFile.kind = "json") =>
    /\ ConfigLoaded <=> NotNonEmptyStrings(ChosenConfigFile.value) = {}
    /\ ~ConfigLoaded =>
         {diag.missing[i] : i \in 1..Len(diag.missing)}
           = NotNonEmptyStrings(ChosenConfigFile.value)

\* the required keys of a parsed file whose value is falsy
FalsyKeys(obj) ==
  {requiredFields[i] : i \in {j \in 1..Len(requiredFields) :
      ~Truthy(obj[requiredFields[j]])}}
\* the configuration file cannot be loaded: it is absent, is not JSON, or
\* lacks a required key
LoadMustFail ==
  \/ ChosenConfigFile.kind # "json"
  \/ FalsyKeys(ChosenConfigFile.value) # {}

\* C13: the server serves only if the configuration loaded and the compiler
\* script is in place; if loading fails or the script is missing the process
\* has exited with a non-zero status and no request was ever delivered;
\* otherwise, warnings or not, it serves.
C13_ServesOnlyWhenValid ==
  /\ serverState = "starting" => issued = 0
  /\ serverState # "starting" =>
       /\ serverState = "serving"
            <=> (~LoadMustFail /\ existsSync(fs, getDilonCompilerPaths.scriptPath))
       /\ serverState = "serving" => (ConfigLoaded /\ exitCode = 0 /\ diag.errors = <<>>)
       /\ serverState # "serving" =>
            (serverState = "exited" /\ exitCode # 0 /\ issued = 0 /\ last = NoAnswer)

\* the configured renderer directory is absent, startup printed warnings,
\* and the server serves
C13_Witness ==
  /\ serverState = "serving"
  /\ ~existsSync(fs, config.plantUmlPath)
  /\ diag.warnings # <<>>

\* the positional arguments the compiler is to get for a compile request
ExpectedPythonArgs(args) ==
  <<resolvePath(args.input_markdown, cwd), CompileOutputOf(args)>>
    \o (IF ~Truthy(args.signature_template) /\ ~Truthy(args.content_template)
        THEN <<>>
        ELSE <<IF Truthy(args.signature_template)
               THEN resolvePath(args.signature_template, cwd)
               ELSE getDilonCompilerPaths.signatureTemplate,
               IF Truthy(args.content_template)
               THEN resolvePath(args.content_template, cwd)
               ELSE getDilonCompilerPaths.contentTemplate>>)
\* the command line of the compiler for a compile request
ExpectedPythonCommand(args) ==
  PythonCommand(config.pythonPath, getDilonCompilerPaths.scriptPath,
                ExpectedPythonArgs(args))

\* C14: the compiler is spawned with two positional arguments (input,
\* output) when no template is overridden and with four (input, output,
\* signature template, content template) when one or both are, never with
\* three; a lone override stands in its own position and the other position
\* holds the bundled template.
C14_TwoOrFourArguments ==
  /\ \A r \in Requests : inflight[r].phase = "python" =>
       /\ Len(inflight[r].locals.pythonArgs) \in {2, 4}
       /\ inflight[r].locals.pythonArgs = ExpectedPythonArgs(inflight[r].args)
       /\ inflight[r].cmds = <<ExpectedPythonCommand(inflight[r].args)>>
  /\ (LastIs("dilon_compile_doc") /\ last.cmds # <<>>) =>
       last.cmds = <<ExpectedPythonCommand(last.args)>>

\* the compiler runs for a request that overrides the content template only
C14_Witness ==
  \E r \in Requests :
    /\ inflight[r].phase = "python"
    /\ ~Truthy(inflight[r].args.signature_template)
    /\ Truthy(inflight[r].args.content_template)
    /\ Len(inflight[r].locals.pythonArgs) = 4
    /\ inflight[r].locals.pythonArgs[3] = getDilonCompilerPaths.signatureTemplate

\* a render request for an existing .puml file was answered after a renderer
\* run that exited with status 0 and wrote the diagram
RenderedByContract ==
  /\ LastIs("dilon_plantuml")
  /\ last.args.isObject /\ IsString(last.args.input_file)
  /\ last.pre.inputExists
  /\ ~RenderExtInvalid(resolvePath(last.args.input_file, cwd))
  /\ last.causes # <<>> /\ last.causes[Len(last.causes)] = "ok"
  /\ last.wrote # {}

\* C15: a render request for an existing .puml file whose renderer exits
\* with status 0 and writes the diagram is answered with a success envelope
\* that reports the output path, and the diagram is at that path: the
\* resolved output_path when one is given, otherwise the input's directory
\* and stem with the extension of the format.
C15_DiagramAtOutputPath ==
  RenderedByContract =>
    /\ LastIsSuccess
    /\ last.wrote = {RenderOutputOf(last.args)}
    /\ includes(EnvelopeText(last.res.envelope),
                <<"Output:", Space>> \o RenderOutputOf(last.args))

\* the enumerated output formats of the render tool
OutputFormats == {<<"png">>, <<"svg">>, <<"pdf">>}
\* the renderer command lines for the input of args in an enumerated format
EnumeratedCommands(args, cfg) ==
  {PowerShellCommand(PlantUmlCommand(<<"-t">> \o fmt, resolvePath(args.input_file, cwd))) :
     fmt \in OutputFormats}
  \cup {PowerShellCommand(
          JavaCommand(pathJoin(cfg.plantUmlPath, <<"plantuml", Dot, "jar">>),
                      <<"-t">> \o fmt, resolvePath(args.input_file, cwd))) :
          fmt \in OutputFormats}
\* every renderer command of a request is in an enumerated format, in png
\* when the request names none, and so is the default output extension
FormatEnumerated(args, cmds, cfg) ==
  /\ \A i \in 1..Len(cmds) : cmds[i] \in EnumeratedCommands(args, cfg)
  /\ ~Truthy(args.output_format) =>
       \A i \in 1..Len(cmds) : includes(cmds[i], <<Space, "-t", "png", Space>>)
  /\ ~Truthy(args.output_path) =>
       parse(RenderOutputOf(args)).ext \in {<<Dot>> \o fmt : fmt \in OutputFormats}

\* C16: for every render request the format flag of every renderer command
\* spawned for it is one of -tpng, -tsvg, -tpdf (-tpng when the request names
\* no format), and the default output extension is one of .png, .svg, .pdf.
C16_FormatEnumerated ==
  /\ \A r \in Requests : inflight[r].phase \in {"alias", "java"} =>
       FormatEnumerated(inflight[r].args, inflight[r].cmds, config)
  /\ (LastIs("dilon_plantuml") /\ last.cmds # <<>>) =>
       FormatEnumerated(last.args, last.cmds, config)

\* q is an absolute path in normal form: no empty, "." or ".." segment and
\* no separator at its end, the root apart
IsNormalPath(q) ==
  /\ isAbsolute(q)
  /\ q # <<Sep>> =>
       \A i \in 1..Len(SplitPath(Tail(q))) :
         SplitPath(Tail(q))[i] \notin {<<>>, <<Dot>>, <<Dot, Dot>>}
\* q without the separators at its end, the root apart
RECURSIVE WithoutTrailingSep(_)
WithoutTrailingSep(q) ==
  IF Len(q) > 1 /\ q[Len(q)] = Sep THEN WithoutTrailingSep(SubSeq(q, 1, Len(q) - 1)) ELSE q
\* the first call of the resolution in progress
FirstResolution == IF resolution.phase = "again" THEN resolution.first ELSE resolution

\* C17: resolvePath gives the same result for a relative path whether or
\* not the base ends with a separator; for an absolute path it gives that
\* path normalized (unchanged when it is in normal form already), whatever
\* the base; its result is always an absolute path in normal form; and
\* resolving a result again, against any base, returns it unchanged.
C17_ResolvePathLaws ==
  /\ resolution.phase \in {"resolved", "again"} =>
       /\ ~isAbsolute(FirstResolution.filePath) =>
            FirstResolution.result = FirstResolution.withSeparator
       /\ isAbsolute(FirstResolution.filePath) =>
            /\ FirstResolution.result =
                 WithoutTrailingSep(pathNormalize(FirstResolution.filePath))
            /\ IsNormalPath(FirstResolution.filePath) =>
                 FirstResolution.result = FirstResolution.filePath
            /\ FirstResolution.result = FirstResolution.fromOther
            /\ FirstResolution.result = FirstResolution.withSeparator
       /\ isAbsolute(FirstResolution.result)
       /\ IsNormalPath(FirstResolution.result)
  /\ resolution.phase = "again" => resolution.result = resolution.first.result

\* a relative path with a ".." segment was resolved against a base that
\* needed normalizing, and its result was resolved again against a base that
\* ends with a separator
C17_Witness ==
  /\ resolution.phase = "again"
  /\ resolution.first.filePath = <<Dot, Dot, Sep, "x">>
  /\ resolution.first.basePath = <<Sep, "a", Sep, Sep, "b">>
  /\ resolution.first.otherBase = <<"r", Sep>>
  /\ resolution.first.result = <<Sep, "a", Sep, "x">>
  /\ resolution.result = <<Sep, "a", Sep, "x">>

\* the atoms that open a quoted front-matter value
FieldOpeners ==
  {"title: \"", "author: \"", "department: \"", "doc_number: \"",
   "current_revision: \"", "regulatory_rep: \"", "quality_rep: \"",
   "department_head: \"", "- number: \"", "description: \"", "eco_number: \"",
   "eco_date: \""}
\* text without the values of its quoted fields: what follows an opener is
\* left out up to the closing quote
RECURSIVE OutsideFields(_, _)
OutsideFields(text, inValue) ==
  IF text = <<>> THEN <<>>
  ELSE IF inValue
  THEN IF Head(text) = Quote
       THEN <<Quote>> \o OutsideFields(Tail(text), FALSE)
       ELSE OutsideFields(Tail(text), TRUE)
  ELSE <<Head(text)>> \o OutsideFields(Tail(text), Head(text) \in FieldOpeners)
\* the paths whose entry differs between f and g
ChangedPaths(f, g) ==
  {p \in DOMAIN f \cup DOMAIN g : p \notin DOMAIN f \/ p \notin DOMAIN g \/ f[p] # g[p]}

\* C18: a generate-stub request changes the filesystem by at most one file.
\* When it is answered with a success envelope, exactly one file is new, at
\* the resolved output_path, where nothing was before; when it is answered
\* with an error envelope, no file is created or modified.  The template is
\* never changed, and the written text is the template's text outside the
\* values of the substituted front-matter fields.
C18_StubWritesOneNewFile ==
  [][(last' # last /\ last'.name = "dilon_generate_stub") =>
       /\ last'.res.kind = "return"
       /\ IsSuccessEnvelope(last'.res.envelope) =>
            /\ ChangedPaths(fs, fs') = {StubOutputOf(last'.args)}
            /\ StubOutputOf(last'.args) \notin DOMAIN fs
            /\ fs'[StubOutputOf(last'.args)].kind = "file"
            /\ OutsideFields(fs'[StubOutputOf(last'.args)].data, FALSE)
                 = OutsideFields(fs[TEMPLATE_PATH].data, FALSE)
       /\ ~IsSuccessEnvelope(last'.res.envelope) =>
            /\ IsErrorEnvelope(last'.res.envelope)
            /\ ChangedPaths(fs, fs') = {}
       /\ TEMPLATE_PATH \in DOMAIN fs => fs'[TEMPLATE_PATH] = fs[TEMPLATE_PATH]
       /\ last'.wrote = ChangedPaths(fs, fs')]_vars

\* a stub with a title and a revision of its own was written beside the
\* untouched template
C18_Witness ==
  /\ LastIs("dilon_generate_stub") /\ LastIsSuccess
  /\ last.args.title = <<"T">> /\ last.args.current_revision = <<"01">>
  /\ last.wrote = {StubOutputOf(last.args)}
  /\ ~last.pre.outputExists
  /\ fs[StubOutputOf(last.args)].by = last.id
  /\ fs[StubOutputOf(last.args)].data # fs[TEMPLATE_PATH].data
  /\ fs[TEMPLATE_PATH] = last.pre.fs[TEMPLATE_PATH]

\* t is a template override that names a file missing from f
OverrideMissing(t, f) ==
  Truthy(t) /\ IsString(t) /\ ~existsSync(f, resolvePath(t, cwd))
\* a template override of args names a file missing from f
TemplateMissing(args, f) ==
  OverrideMissing(args.signature_template, f) \/ OverrideMissing(args.content_template, f)
\* the input of the request with precondition pre has the Markdown extension
HasMarkdownExt(pre) == toLowerCase(pre.inputExt) = <<Dot, "md">>

\* C19: compile-document checks that the input exists, then its extension,
\* then that the override templates exist, and the first check that fails
\* decides the answer: a missing input is "Input file not found" whatever
\* its name and its templates, an existing input with another extension is
\* "Invalid input file" whatever its templates, and a missing override
\* template is answered with an error envelope ("Signature template not
\* found" or "Content template not found" when the output path is a
\* string) without any process having been spawned.
C19_CompileCheckOrder ==
  /\ \A r \in Requests : inflight[r].phase = "python" =>
       /\ inflight[r].pre.inputExists
       /\ HasMarkdownExt(inflight[r].pre)
       /\ ~TemplateMissing(inflight[r].args, inflight[r].pre.fs)
  /\ (LastIs("dilon_compile_doc") /\ last.args.isObject
        /\ IsString(last.args.input_markdown)) =>
       /\ ~last.pre.inputExists =>
            LastIsError /\ LastTitle = "Input file not found" /\ last.cmds = <<>>
       /\ (last.pre.inputExists /\ ~HasMarkdownExt(last.pre)) =>
            LastIsError /\ LastTitle = "Invalid input file" /\ last.cmds = <<>>
       /\ (last.pre.inputExists /\ HasMarkdownExt(last.pre)
             /\ TemplateMissing(last.args, last.pre.fs)) =>
            /\ LastIsError /\ last.cmds = <<>> /\ last.wrote = {}
            /\ (~Truthy(last.args.output_word) \/ IsString(last.args.output_word)) =>
                 LastTitle = (IF OverrideMissing(last.args.signature_template, last.pre.fs)
                              THEN "Signature template not found"
                              ELSE "Content template not found")

\* a request whose input is missing, is not named .md and whose signature
\* template is missing as well was answered "Input file not found"
C19_Witness ==
  /\ LastIs("dilon_compile_doc")
  /\ last.args.isObject /\ IsString(last.args.input_markdown)
  /\ ~last.pre.inputExists
  /\ ~HasMarkdownExt(last.pre)
  /\ TemplateMissing(last.args, last.pre.fs)
  /\ LastIsError /\ LastTitle = "Input file not found"

\* where the handler expects the jar of the renderer
ExpectedJar == pathJoin(config.plantUmlPath, <<"plantuml", Dot, "jar">>)
\* the request passed the input checks of render-diagram and the jar was
\* not in the configured directory
JarAbsentFor(req) ==
  /\ req.name = "dilon_plantuml"
  /\ req.args.isObject /\ IsString(req.args.input_file)
  /\ req.pre.inputExists
  /\ toLowerCase(req.pre.inputExt) = <<Dot, "puml">>
  /\ IsString(config.plantUmlPath)
  /\ ~existsSync(req.pre.fs, ExpectedJar)
\* the optional arguments of a render request are strings or absent
OptionalArgsTyped(args) ==
  /\ ~Truthy(args.output_format) \/ IsString(args.output_format)
  /\ ~Truthy(args.output_path) \/ IsString(args.output_path)

\* C20: a render-diagram request that passed the input existence and
\* extension checks while plantuml.jar is not in the configured directory is
\* answered with an error envelope and no process is spawned for it at all;
\* the envelope is "PlantUML not found" and names the expected location of
\* the jar (the optional arguments being strings or absent).
C20_MissingJarRejected ==
  /\ \A r \in Requests : Suspended(r) => ~JarAbsentFor(inflight[r])
  /\ (SomeAnswer /\ JarAbsentFor(last)) =>
       /\ LastIsError
       /\ last.cmds = <<>> /\ last.wrote = {}
       /\ OptionalArgsTyped(last.args) =>
            /\ LastTitle = "PlantUML not found"
            /\ includes(EnvelopeText(last.res.envelope), ExpectedJar)

\* a render request for an existing .puml file was refused for the jar
C20_Witness ==
  /\ SomeAnswer /\ JarAbsentFor(last)
  /\ OptionalArgsTyped(last.args)
  /\ LastIsError /\ LastTitle = "PlantUML not found"
  /\ includes(EnvelopeText(last.res.envelope), ExpectedJar)
  /\ last.cmds = <<>>

\* the aliased command was not recognized and the java -jar run failed too
BothRunsFailed(results) ==
  /\ AliasNotRecognized(results)
  /\ Len(results) = 2
  /\ ~results[2].success

\* C21: when the aliased command fails as "not recognized" and the java -jar
\* fallback fails as well, render-diagram answers with the error envelope
\* "PlantUML execution failed" whose detail carries the error description,
\* the stderr and the stdout of the fallback run; exactly two commands were
\* spawned, no request ever spawns a third, and the answer is not the one of
\* the output-file check.
C21_FallbackFailureReported ==
  /\ \A r \in Requests : Suspended(r) => Len(inflight[r].cmds) <= 2
  /\ SomeAnswer => Len(last.cmds) <= 2
  /\ (LastIs("dilon_plantuml") /\ BothRunsFailed(last.results)) =>
       /\ LastIsError
       /\ LastTitle = "PlantUML execution failed"
       /\ Len(last.cmds) = 2
       /\ Truthy(last.results[2].error) /\ last.results[2].error # Empty
       /\ includes(EnvelopeText(last.res.envelope),
                   <<"Error:", Space>> \o last.results[2].error
                     \o <<NL, NL, "Stderr:", NL>> \o last.results[2].stderr
                     \o <<NL, NL, "Stdout:", NL>> \o last.results[2].stdout)

\* both runs failed, the fallback with "Unable to access jarfile" on stderr,
\* and the answer carries that text
C21_Witness ==
  /\ LastIs("dilon_plantuml")
  /\ BothRunsFailed(last.results)
  /\ last.results[2].stderr = <<"Unable to access jarfile">>
  /\ includes(EnvelopeText(last.res.envelope),
              <<"Stderr:", NL, "Unable to access jarfile">>)
  /\ LastIsError

\* the value a stub request supplies for a field, or the field's default
Supplied(v, default) == IF Truthy(v) THEN v ELSE default
\* the front matter up to the revision history, with the supplied values
FrontFieldsOf(args) ==
  <<"---", NL, "title: \"">> \o Supplied(args.title, <<"Document Title">>)
    \o <<Quote, NL, "author: \"">> \o Supplied(args.author, <<"Author Name">>)
    \o <<Quote, NL, "department: \"">> \o Supplied(args.department, <<"--">>)
    \o <<Quote, NL, "doc_number: \"">> \o Supplied(args.doc_number, <<"DD_XXX_XXXXX">>)
    \o <<Quote, NL, "current_revision: \"">> \o Supplied(args.current_revision, <<"00">>)
    \o <<Quote, NL, "regulatory_rep: \"">> \o Supplied(args.regulatory_rep, <<"--">>)
    \o <<Quote, NL, "quality_rep: \"">> \o Supplied(args.quality_rep, <<"--">>)
    \o <<Quote, NL, "department_head: \"">> \o Supplied(args.department_head, <<"--">>)
    \o <<Quote, NL, "revisions:", NL>>
\* the end of the front matter and the body of the template
TemplateBody == <<"---", NL, NL, "## 1. Purpose and Scope", NL>>
\* the single revision entry with the supplied values
RevisionEntryOf(args) ==
  <<Indent2, "- number: \"">> \o Supplied(args.current_revision, <<"00">>)
    \o <<Quote, NL, Indent4, "description: \"">>
    \o Supplied(args.revision_description, <<"Initial release">>)
    \o <<Quote, NL, Indent4, "eco_number: \"">> \o Supplied(args.eco_number, <<"ECO-TBD">>)
    \o <<Quote, NL, Indent4, "eco_date: \"">> \o Supplied(args.eco_date, <<"YYYY-MM-DD">>)
    \o <<Quote, NL>>
\* text starts with / ends with part
StartsWith(text, part) == Len(text) >= Len(part) /\ SubSeq(text, 1, Len(part)) = part
EndsWith(text, part) ==
  Len(text) >= Len(part) /\ SubSeq(text, Len(text) - Len(part) + 1, Len(text)) = part
\* the step answers a generate-stub request with a success envelope, the
\* shipped template being in place
StubWritten ==
  /\ last' # last
  /\ last'.name = "dilon_generate_stub"
  /\ last'.res.kind = "return" /\ IsSuccessEnvelope(last'.res.envelope)
  /\ fs[TEMPLATE_PATH].data = TemplateText

\* C22: in the document generate-stub writes, each of the eight front-matter
\* fields holds exactly the value supplied for it, or its default, whatever
\* the other values are, and the body is the template's.
C22_FieldsHoldSuppliedValues ==
  [][StubWritten =>
       /\ StartsWith(fs'[StubOutputOf(last'.args)].data, FrontFieldsOf(last'.args))
       /\ EndsWith(fs'[StubOutputOf(last'.args)].data, TemplateBody)]_vars

\* C23: in every document generate-stub writes, the number of the single
\* revision entry equals the front-matter current_revision value, both being
\* the current_revision argument or "00" when it is omitted or empty, and the
\* entry's description, eco_number and eco_date are the supplied values or
\* their defaults.
C23_RevisionEntrySynchronized ==
  [][StubWritten =>
       /\ includes(fs'[StubOutputOf(last'.args)].data,
                   <<NL, "current_revision: \"">>
                     \o Supplied(last'.args.current_revision, <<"00">>) \o <<Quote, NL>>)
       /\ includes(fs'[StubOutputOf(last'.args)].data,
                   <<"revisions:", NL>> \o RevisionEntryOf(last'.args) \o TemplateBody)]_vars

\* the paths whose absence validateToolPaths only warns about
SoftPaths ==
  {getDilonCompilerPaths.signatureTemplate, getDilonCompilerPaths.contentTemplate,
   getDocumentationPaths.markdownStyling, getDocumentationPaths.plantUmlStyling,
   config.plantUmlPath}

\* C24: once the configuration is loaded, validation fails (the server exits
\* instead of serving) exactly when the embedded compiler script is missing,
\* and exactly then there is an error entry; each missing template, styling
\* guide or renderer directory adds one warning entry and changes neither;
\* the configuration is left as it was loaded.
C24_OnlyScriptIsRequired ==
  ConfigLoaded =>
    /\ serverState = "exited" <=> ~existsSync(fs, getDilonCompilerPaths.scriptPath)
    /\ diag.errors # <<>> <=> ~existsSync(fs, getDilonCompilerPaths.scriptPath)
    /\ Len(diag.warnings) = Cardinality({p \in SoftPaths : ~existsSync(fs, p)})
    /\ config = ChosenConfigFile.value

\* the script and a styling guide are missing: one error, one warning
C24_Witness ==
  /\ ConfigLoaded
  /\ serverState = "exited" /\ exitCode = 1
  /\ Len(diag.errors) = 1
  /\ Len(diag.warnings) = 1
  /\ ~existsSync(fs, getDocumentationPaths.markdownStyling)

\* the user configuration cannot be used: it is not JSON, or lacks a key
UserConfigUnusable ==
  \/ configFiles.user.kind = "garbage"
  \/ configFiles.user.kind = "json" /\ FalsyKeys(configFiles.user.value) # {}

\* C25: loadConfig reads the user configuration whenever that file exists,
\* without a warning, and then never the bundled example: a user file that
\* cannot be parsed or lacks a key makes the load fail even beside a usable
\* example.  The example is read only when the user file is absent, with a
\* warning; when both are absent the load fails with nothing read.
C25_UserConfigFirst ==
  serverState # "starting" =>
    /\ configFiles.user.kind # "absent" =>
         /\ diag.read = "user" /\ ~diag.warned
         /\ ConfigLoaded => config = configFiles.user.value
         /\ UserConfigUnusable => (~ConfigLoaded /\ serverState = "exited" /\ exitCode # 0)
    /\ configFiles.user.kind = "absent" =>
         /\ diag.warned
         /\ diag.read = (IF configFiles.example.kind = "absent" THEN "none" ELSE "example")
         /\ ConfigLoaded => config = configFiles.example.value
         /\ configFiles.example.kind = "absent" =>
              (~ConfigLoaded /\ serverState = "exited" /\ exitCode # 0)

\* an unparsable user configuration beside a usable example: the load failed
C25_Witness ==
  /\ serverState = "exited"
  /\ configFiles.user.kind = "garbage"
  /\ configFiles.example.kind = "json"
  /\ FalsyKeys(configFiles.example.value) = {}
  /\ diag.read = "user"
  /\ ~ConfigLoaded

\* what executeCommand keeps of a stream: its text trimmed, the empty
\* string when the error carries none
Captured(stream) == IF IsString(stream) THEN trim(stream) ELSE Empty

\* C26: executeCommand settles with a result for every way its child process
\* can end and never throws.  The result has the four fields success,
\* stdout, stderr and error; success is true exactly for exit status 0 and
\* then error is null; otherwise error is a non-empty description, and
\* stdout and stderr hold what was captured (trimmed), the empty string when
\* there is none.
C26_AlwaysAResult ==
  /\ execution.phase = "called" => ENABLED Execute
  /\ execution.phase = "returned" =>
       /\ DOMAIN execution.result = {"success", "stdout", "stderr", "error"}
       /\ execution.result.success \in BOOLEAN
       /\ execution.result.success <=> execution.outcome.exit = "zero"
       /\ execution.result.success => execution.result.error = Null
       /\ ~execution.result.success =>
            IsString(execution.result.error) /\ execution.result.error # Empty
       /\ execution.result.stdout = Captured(execution.outcome.stdout)
       /\ execution.result.stderr = Captured(execution.outcome.stderr)

\* a child that exceeded the buffer ceiling after writing to both streams
C26_Witness ==
  /\ execution.phase = "returned"
  /\ execution.outcome.exit = "maxbuffer"
  /\ execution.outcome.stdout = <<NL, "line", NL, "line", NL>>
  /\ ~execution.result.success
  /\ execution.result.stdout = <<"line", NL, "line">>
  /\ execution.result.error = <<"stdout maxBuffer length exceeded">>

\* the output path of a compile or render request
OutputOf(req) ==
  IF req.name = "dilon_compile_doc" THEN CompileOutputOf(req.args)
  ELSE RenderOutputOf(req.args)
\* request r runs a child process for a compile or a render request
Running(r) ==
  Suspended(r) /\ inflight[r].name \in {"dilon_compile_doc", "dilon_plantuml"}

\* C27: requests for the same output path are neither serialized nor
\* guarded.  A compile or render request equal to one whose child process is
\* still running is never turned away at delivery, and a request whose last
\* child process exited with status 0 is answered with a success envelope
\* whenever a file is at its output path, whoever wrote it.
C27_SameOutputUnguarded ==
  [][/\ (last' # last /\ last'.id = issued' /\ issued' = issued + 1) =>
          ~\E r \in Requests :
              /\ Running(r)
              /\ inflight[r].name = last'.name
              /\ inflight[r].args = last'.args
     /\ (last' # last /\ last'.name \in {"dilon_compile_doc", "dilon_plantuml"}
           /\ last'.causes # <<>> /\ last'.causes[Len(last'.causes)] = "ok"
           /\ existsSync(fs, OutputOf(last'))) =>
          (last'.res.kind = "return" /\ IsSuccessEnvelope(last'.res.envelope))]_vars

\* two compile requests for one output path were in flight together: the
\* later one wrote the file and was answered with success, the earlier one,
\* still running, has overwritten the file since
C27_Witness ==
  \E r \in Requests :
    /\ inflight[r].phase = "python"
    /\ LastIs("dilon_compile_doc") /\ LastIsSuccess
    /\ r < last.id
    /\ CompileOutputOf(inflight[r].args) = CompileOutputOf(last.args)
    /\ last.wrote = {CompileOutputOf(last.args)}
    /\ inflight[r].wrote = {CompileOutputOf(last.args)}
    /\ fs[CompileOutputOf(last.args)].by = r

\* the most commands a handler spawns for one request
MaxSpawned(name) ==
  IF name = "dilon_compile_doc" THEN 1 ELSE IF name = "dilon_plantuml" THEN 2 ELSE 0
\* request r has its envelope
HasEnvelope(r) == inflight[r] = Answered

\* C28: provided every external process ends, every delivered request gets
\* its envelope, once: generate-stub spawns no process, compile-document at
\* most one and render-diagram at most two.  No step other than the end of
\* its own child process answers a suspended request (there is no timeout),
\* and an answered request stays answered.
C28_AnsweredWhenProcessesEnd ==
  /\ [](\A r \in Requests : Suspended(r) =>
          Len(inflight[r].cmds) <= MaxSpawned(inflight[r].name))
  /\ [](SomeAnswer => Len(last.cmds) <= MaxSpawned(last.name))
  /\ [][\A r \in Requests :
          /\ HasEnvelope(r) => inflight'[r] = Answered
          /\ (Suspended(r) /\ inflight'[r] = Answered) =>
               /\ last'.id = r
               /\ Len(last'.results) = Len(inflight[r].results) + 1]_vars
  /\ \A r \in Requests : Suspended(r) ~> HasEnvelope(r)

\* a request delivered after one whose child process is still running has
\* spawned its own process and got its envelope
C28_Witness ==
  \E r \in Requests :
    /\ Suspended(r)
    /\ SomeAnswer /\ last.id > r
    /\ last.cmds # <<>>
    /\ HasEnvelope(last.id)


\* the answer `a` is that of a generate-stub request that names an output path
StubFor(a) ==
  /\ a.name = "dilon_generate_stub"
  /\ a.args.isObject
  /\ IsString(a.args.output_path)
SuccessOf(a) == a.res.kind = "return" /\ IsSuccessEnvelope(a.res.envelope)
TitleOf(a) == EnvelopeText(a.res.envelope)[1]
RefusedOf(a) ==
  /\ a.res.kind = "return"
  /\ IsErrorEnvelope(a.res.envelope)
  /\ TitleOf(a) = "File already exists"
\* the text the request behind `a` asks for
StubContentOf(a) ==
  ApplyReplacements(a.pre.fs[TEMPLATE_PATH].data, StubReplacements(a.args))
\* a generate-stub request that names an output path is answered
StubAnswered == last' # last /\ StubFor(last')
\* two generate-stub requests for one output path, which did not exist when
\* the first arrived, are answered one after the other: `last` is the answer
\* to the first, `last'` the answer to the second, and no process of another
\* tool has written to the path since the first arrived
StubsForOnePath ==
  /\ SomeAnswer /\ StubAnswered
  /\ StubFor(last)
  /\ StubOutputOf(last.args) = StubOutputOf(last'.args)
  /\ ~last.pre.outputExists
  /\ existsSync(fs, StubOutputOf(last.args)) => fs[StubOutputOf(last.args)].by = last.id
\* of the two, `w` succeeded and `l` was refused, and the file is w's
OneWins(w, l, f) ==
  /\ SuccessOf(w) /\ RefusedOf(l)
  /\ f[StubOutputOf(w.args)] = File(w.id, StubContentOf(w))

\* C29 as stated: of the generate-stub requests for one output path that did
\* not exist beforehand exactly one returns success, all others return the
\* error "File already exists", and the file holds the text of the
\* successful request.
C29_ExactlyOneSucceeds ==
  [][StubsForOnePath =>
       \/ OneWins(last, last', fs')
       \/ OneWins(last', last, fs')]_vars

\* C29, amended: when the template can be read, has its front matter and the
\* output file can be written, the first of the generate-stub requests for
\* one output path that did not exist beforehand succeeds, the next one is
\* answered "File already exists" and changes nothing, and the file holds the
\* text of the first; otherwise both are answered with the same error,
\* neither with "File already exists", and no file is created.  Every
\* further request that finds a file at its output path (and can read the
\* template) is answered "File already exists" and changes nothing.  The
\* handler runs from its existence check to its write within the step that
\* delivers the request.
C29_OneStubPerPath ==
  [][/\ StubsForOnePath =>
          IF /\ StubTemplateUsable(last.pre.fs)
             /\ CanWrite(last.pre.fs, StubOutputOf(last.args))
          THEN /\ OneWins(last, last', fs')
               /\ fs' = fs
               /\ last'.wrote = {}
          ELSE /\ ~SuccessOf(last) /\ ~SuccessOf(last')
               /\ ~RefusedOf(last) /\ ~RefusedOf(last')
               /\ last.res = last'.res
               /\ ~existsSync(fs', StubOutputOf(last.args))
     /\ (/\ StubAnswered
         /\ existsSync(fs, StubOutputOf(last'.args))
         /\ CanRead(fs, TEMPLATE_PATH)) =>
          /\ RefusedOf(last')
          /\ fs' = fs
          /\ last'.wrote = {}]_vars

\* the second request for the path asked for another text than the first,
\* was refused, and the file holds the text of the first
C29_Witness ==
  /\ SomeAnswer /\ last.id = 2 /\ StubFor(last)
  /\ RefusedOf(last)
  /\ last.pre.fs[StubOutputOf(last.args)].by = 1
  /\ fs[StubOutputOf(last.args)] = last.pre.fs[StubOutputOf(last.args)]
  /\ StubTemplateUsable(last.pre.fs)
  /\ fs[StubOutputOf(last.args)].data # StubContentOf(last)
  /\ fs[StubOutputOf(last.args)].data[1] = "---"


\* C30: a success envelope of compile-document or render-diagram implies
\* that the file at the output path was written during that request by the
\* request's own child process; a file that was at the output path before,
\* or that another request wrote, together with a child process that exits
\* with status 0 and writes nothing there, is not reported as success.
C30_SuccessMeansOwnOutput ==
  (SomeAnswer /\ last.name \in {"dilon_compile_doc", "dilon_plantuml"} /\ LastIsSuccess)
    => OutputOf(last) \in last.wrote

====
